---------------------------- MODULE Spec2Model ----------------------------
(***************************************************************************)
(* A model of the Seamline web front end.                                  *)
(*                                                                         *)
(*  - the saved places & collections data layer, in its two copies: the    *)
(*    local-storage-only one (src/utils/storage.js) and the remote-auth    *)
(*    one (src/unnamed/part_001), run side by side on the same calls;      *)
(*  - the place-submission form handler (src/unnamed/part_007) with the    *)
(*    validators it calls (src/unnamed/part_000);                          *)
(*  - the category filters of the map and the list view                    *)
(*    (src/unnamed/part_008, src/src/home.js, src/src/listPage.js);        *)
(*  - the sanitizer's pure functions (src/unnamed/part_001).               *)
(*                                                                         *)
(* JavaScript strings are sequences of one-character strings.  null and    *)
(* undefined are records or empty sequences of the same shape as the       *)
(* values they stand in for, so that every comparison is well typed.       *)
(***************************************************************************)
EXTENDS Integers, Sequences, FiniteSets, TLC

VARIABLES
    (* saved data layer *)
    lsL,        \* localStorage[SAVED_KEY] of the local implementation: <<>> (no item) or <<text>>
    lsR,        \* the same item as the remote-auth implementation sees it
    outL,       \* what the last call did, local: return value or throw, events dispatched
    outR,       \* the same, remote-auth implementation
    last,       \* the last call: operation and arguments
    nOps,       \* number of calls made so far
    callers,    \* who calls in this run: emails of signed-in users, NoEmail for null
    budget,     \* number of calls this run is followed for
    (* a pure function of the utilities, called once *)
    fn,         \* "idle", "input" (argument chosen, not yet called) or the function called
    arg,        \* the argument
    res,        \* the value returned
    (* the map page and the list page *)
    places,     \* the places the page fetches (data/places.json or the places table)
    view,       \* the page: what it has loaded, its filter buttons, what it shows
    (* the place-submission page *)
    auth,       \* the auth module: cachedUser, and whether getUser() has answered
    page,       \* the submit button, the form container, the check made on page load
    runs,       \* the invocations of the submit handler, each with its position
    forms,      \* what users type into the form in this run of the page
    (* the error banner of the submission page *)
    errorContainer, \* the banner: hidden or not, its text, when shown and hidden
    timeouts,   \* the pending setTimeout callbacks of showError, by the time they are due
    now,        \* the time in seconds since the page was loaded
    busy,       \* the submit handler: "idle", "running" or "done"
    (* the remote-auth module's sign-in calls *)
    authCalls   \* loginUser / signupUser / logoutUser promises not yet settled, and the
                \* user the last settled sign-in gave
    , search        \* currentQuery, selectedTags, the requests not yet answered, what is rendered

savedVars == <<lsL, lsR, outL, outR, last, nOps, callers, budget>>

pureVars == <<fn, arg, res>>

viewVars == <<places, view>>

submitVars == <<auth, page, runs, forms>>

bannerVars == <<errorContainer, timeouts, now, busy>>

vars == <<savedVars, pureVars, viewVars, submitVars, bannerVars, authCalls, search>>

(* what a call of the saved-data layer leaves alone *)
notSavedVars == <<pureVars, viewVars, submitVars, bannerVars, authCalls, search>>

(* what a call of a pure function leaves alone *)
notPureVars == <<savedVars, viewVars, submitVars, bannerVars, authCalls, search>>

(* what the map page and the list page leave alone *)
notViewVars == <<savedVars, pureVars, submitVars, bannerVars, authCalls, search>>

(* what the submission page leaves alone *)
notSubmitVars == <<savedVars, pureVars, viewVars, bannerVars, authCalls, search>>

(* what the error banner and its timers leave alone *)
notBannerVars == <<savedVars, pureVars, viewVars, submitVars, authCalls, search>>


----------------------------------------------------------------------------
(* Bounds of the model *)

MaxOps == 4          \* calls followed with one signed-in user
MaxUserOps == 3      \* calls followed with two users sharing the browser

----------------------------------------------------------------------------
(* Strings *)

WS == {" ", "\t", "\n"}

RECURSIVE TrimStart(_)
TrimStart(s) ==
    IF s = <<>> THEN s
    ELSE IF Head(s) \in WS THEN TrimStart(Tail(s)) ELSE s

RECURSIVE TrimEnd(_)
TrimEnd(s) ==
    IF s = <<>> THEN s
    ELSE IF s[Len(s)] \in WS THEN TrimEnd(SubSeq(s, 1, Len(s) - 1)) ELSE s

(* String.prototype.trim *)
Trim(s) == TrimEnd(TrimStart(s))

(* Array.prototype.includes *)
Includes(arr, x) == \E i \in 1..Len(arr) : arr[i] = x

(* Array.prototype.filter((id) => id !== x) *)
FilterNot(arr, x) == SelectSeq(arr, LAMBDA y : y # x)

(* Array.from(new Set(arr)): the first occurrence of each element, in order *)
RECURSIVE ArrayFromSet(_)
ArrayFromSet(arr) ==
    IF arr = <<>> THEN <<>>
    ELSE LET init == ArrayFromSet(SubSeq(arr, 1, Len(arr) - 1))
             x == arr[Len(arr)]
         IN IF Includes(init, x) THEN init ELSE Append(init, x)

----------------------------------------------------------------------------
(* Values of the saved-data layer *)

Emails == {"ann@x", "bob@x"}

(* A place id as a caller passes it: the number v or the string of its digits. *)
PlaceArgs == {[t |-> "number", v |-> 1], [t |-> "string", v |-> 1],
              [t |-> "string", v |-> 2]}

(* String(placeId) *)
String(placeId) == [t |-> "string", v |-> placeId.v]

ColIds == {"col-a", "col-b"}

(* Collection names as typed: empty, blank, plain, and padded with blanks *)
RawNames == {<<>>, <<" ">>, <<"A">>, <<" ", "B", " ">>}

NullUser == [null |-> TRUE, id |-> "", name |-> "", email |-> ""]

(* getCurrentUser() of the local implementation: { name, email } *)
LocalUser(e) == [null |-> FALSE, id |-> "", name |-> "n", email |-> e]

(* mapUser() of the remote-auth implementation: { id, name, email } *)
RemoteUser(e) == [null |-> FALSE, id |-> "uid", name |-> "n", email |-> e]

EmptyObject == [k \in {} |-> <<>>]

EmptyData == [items |-> <<>>, collections |-> <<>>]

DefaultName == <<"C", "o", "l", "l", "e", "c", "t", "i", "o", "n">>

(* A JavaScript object with collection ids as keys is an ordered list of       *)
(* [key, col] pairs: Object.values and JSON keep the insertion order.         *)
HasKey(cols, key) == \E i \in 1..Len(cols) : cols[i].key = key

IndexOfKey(cols, key) == CHOOSE i \in 1..Len(cols) : cols[i].key = key

(* cols[key] = col *)
PutKey(cols, key, col) ==
    IF HasKey(cols, key)
    THEN [cols EXCEPT ![IndexOfKey(cols, key)] = [key |-> key, col |-> col]]
    ELSE Append(cols, [key |-> key, col |-> col])

(* delete cols[key] *)
DeleteKey(cols, key) == SelectSeq(cols, LAMBDA e : e.key # key)

(* Object.values(cols) *)
ObjectValues(cols) == [i \in 1..Len(cols) |-> cols[i].col]

(* What a call leaves behind: the storage item, the value returned or the      *)
(* error thrown, and the events dispatched on window.                          *)
Returned(ls, kind, val, events) ==
    [ls |-> ls, out |-> [kind |-> kind, val |-> val, events |-> events]]

Thrown(ls, message) ==
    [ls |-> ls, out |-> [kind |-> "throw", val |-> message, events |-> <<>>]]

----------------------------------------------------------------------------
(* The saved-data layer, local-storage-only implementation                  *)
(* (src/utils/storage.js).  Every function takes the storage item it reads  *)
(* and gives back the item it leaves.                                       *)

(* JSON.parse of a text JSON.stringify wrote gives the value back; the item *)
(* is only ever written by setSavedStore, so the catch branch is not taken. *)
L_parseJSON(raw, fallback) == IF raw = <<>> THEN fallback ELSE raw[1]

L_getSavedStore(ls) == L_parseJSON(ls, EmptyObject)

L_setSavedStore(store) == <<store>>

L_emitSavedChange(email) == [type |-> "seamline:saved-change", email |-> email]

L_normalizeCollections(collections) ==
    [i \in 1..Len(collections) |->
        LET col == collections[i].col
            nid == IF col.id # "" THEN col.id ELSE collections[i].key
        IN [key |-> nid,
            col |-> [id |-> nid,
                     name |-> IF col.name # <<>> THEN col.name ELSE DefaultName,
                     placeIds |-> col.placeIds]]]

(* entry: <<>> for undefined, <<e>> for a stored entry.  Entries are written *)
(* by setUserSavedData only, so they are objects, never the legacy array.    *)
L_normalizeEntry(entry) ==
    IF entry = <<>> THEN EmptyData
    ELSE [items |-> entry[1].items,
          collections |-> L_normalizeCollections(entry[1].collections)]

L_getUserSavedData(ls, user) ==
    IF user.null THEN EmptyData
    ELSE LET store == L_getSavedStore(ls)
         IN L_normalizeEntry(IF user.email \in DOMAIN store
                             THEN <<store[user.email]>> ELSE <<>>)

(* setUserSavedData starting from an empty store instead of the stored one *)
M_setUserSavedData_freshStore(ls, user, data) ==
    IF user.null THEN [ls |-> ls, events |-> <<>>]
    ELSE [ls |-> L_setSavedStore([e \in {user.email} |-> data]),
          events |-> <<L_emitSavedChange(user.email)>>]

L_setUserSavedData(ls, user, data) ==
    IF user.null THEN [ls |-> ls, events |-> <<>>]
    ELSE LET store == L_getSavedStore(ls)
             written == [e \in DOMAIN store \cup {user.email} |->
                            IF e = user.email THEN data ELSE store[e]]
         IN [ls |-> L_setSavedStore(written),
             events |-> <<L_emitSavedChange(user.email)>>]

L_getSavedPlaceIds(ls, user) ==
    IF user.null THEN Returned(ls, "array", <<>>, <<>>)
    ELSE Returned(ls, "array", L_getUserSavedData(ls, user).items, <<>>)

L_isPlaceSaved(ls, user, placeId) ==
    IF user.null THEN Returned(ls, "boolean", FALSE, <<>>)
    ELSE Returned(ls, "boolean",
                  Includes(L_getSavedPlaceIds(ls, user).out.val, String(placeId)), <<>>)

L_savePlace(ls, user, placeId) ==
    IF user.null THEN Thrown(ls, "Login required")
    ELSE LET data == L_getUserSavedData(ls, user)
             ids == ArrayFromSet(Append(data.items, String(placeId)))
             data2 == [data EXCEPT !.items = ids]
             w == L_setUserSavedData(ls, user, data2)
         IN Returned(w.ls, "array", data2.items, w.events)

(* removeSavedPlace forgetting the collections *)
M_removeSavedPlace_flatOnly(ls, user, placeId) ==
    IF user.null THEN Thrown(ls, "Login required")
    ELSE LET data == L_getUserSavedData(ls, user)
             data2 == [data EXCEPT !.items = FilterNot(@, String(placeId))]
             w == L_setUserSavedData(ls, user, data2)
         IN Returned(w.ls, "array", data2.items, w.events)

L_removeSavedPlace(ls, user, placeId) ==
    IF user.null THEN Thrown(ls, "Login required")
    ELSE LET targetId == String(placeId)
             data == L_getUserSavedData(ls, user)
             items == FilterNot(data.items, targetId)
             cols == [i \in 1..Len(data.collections) |->
                        [data.collections[i] EXCEPT
                            !.col.placeIds = FilterNot(@, targetId)]]
             data2 == [items |-> items, collections |-> cols]
             w == L_setUserSavedData(ls, user, data2)
         IN Returned(w.ls, "array", data2.items, w.events)

L_getCollections(ls, user) ==
    IF user.null THEN Returned(ls, "array", <<>>, <<>>)
    ELSE Returned(ls, "array",
                  ObjectValues(L_getUserSavedData(ls, user).collections), <<>>)

(* id: what generateCollectionId() gave this call *)
L_createCollection(ls, user, name, id) ==
    IF user.null THEN Thrown(ls, "Login required")
    ELSE LET trimmed == Trim(name)
         IN IF trimmed = <<>> THEN Thrown(ls, "Collection name is required.")
            ELSE LET data == L_getUserSavedData(ls, user)
                     col == [id |-> id, name |-> trimmed, placeIds |-> <<>>]
                     data2 == [data EXCEPT
                                 !.collections = PutKey(@, id, col)]
                     w == L_setUserSavedData(ls, user, data2)
                 IN Returned(w.ls, "collection", col, w.events)

(* deleteCollection unsaving the places of the collection it deletes *)
M_deleteCollection_unsaves(ls, user, collectionId) ==
    IF user.null THEN Thrown(ls, "Login required")
    ELSE LET data == L_getUserSavedData(ls, user)
             members == IF HasKey(data.collections, collectionId)
                        THEN data.collections[IndexOfKey(data.collections, collectionId)].col.placeIds
                        ELSE <<>>
             data2 == [items |-> SelectSeq(data.items, LAMBDA x : ~Includes(members, x)),
                       collections |-> DeleteKey(data.collections, collectionId)]
             w == L_setUserSavedData(ls, user, data2)
         IN Returned(w.ls, "undefined", <<>>, w.events)

L_deleteCollection(ls, user, collectionId) ==
    IF user.null THEN Thrown(ls, "Login required")
    ELSE LET data == L_getUserSavedData(ls, user)
             data2 == [data EXCEPT !.collections = DeleteKey(@, collectionId)]
             w == L_setUserSavedData(ls, user, data2)
         IN Returned(w.ls, "undefined", <<>>, w.events)

(* addPlaceToCollection saving the place before it looks for the collection *)
M_addPlaceToCollection_savesFirst(ls, user, collectionId, placeId) ==
    IF user.null THEN Thrown(ls, "Login required")
    ELSE LET data == L_getUserSavedData(ls, user)
             items == IF Includes(data.items, String(placeId))
                      THEN data.items
                      ELSE Append(data.items, String(placeId))
         IN IF ~HasKey(data.collections, collectionId)
            THEN Thrown(L_setUserSavedData(ls, user, [data EXCEPT !.items = items]).ls,
                        "Collection not found.")
            ELSE LET collection ==
                         data.collections[IndexOfKey(data.collections, collectionId)].col
                     ids == ArrayFromSet(Append(collection.placeIds, String(placeId)))
                     collection2 == [collection EXCEPT !.placeIds = ids]
                     data2 == [items |-> items,
                               collections |->
                                   PutKey(data.collections, collectionId, collection2)]
                     w == L_setUserSavedData(ls, user, data2)
                 IN Returned(w.ls, "collection", collection2, w.events)

L_addPlaceToCollection(ls, user, collectionId, placeId) ==
    IF user.null THEN Thrown(ls, "Login required")
    ELSE LET data == L_getUserSavedData(ls, user)
         IN IF ~HasKey(data.collections, collectionId)
            THEN Thrown(ls, "Collection not found.")
            ELSE LET collection ==
                         data.collections[IndexOfKey(data.collections, collectionId)].col
                     items == IF Includes(data.items, String(placeId))
                              THEN data.items
                              ELSE Append(data.items, String(placeId))
                     ids == ArrayFromSet(Append(collection.placeIds, String(placeId)))
                     collection2 == [collection EXCEPT !.placeIds = ids]
                     data2 == [items |-> items,
                               collections |->
                                   PutKey(data.collections, collectionId, collection2)]
                     w == L_setUserSavedData(ls, user, data2)
                 IN Returned(w.ls, "collection", collection2, w.events)

L_removePlaceFromCollection(ls, user, collectionId, placeId) ==
    IF user.null THEN Thrown(ls, "Login required")
    ELSE LET data == L_getUserSavedData(ls, user)
         IN IF ~HasKey(data.collections, collectionId)
            THEN Returned(ls, "undefined", <<>>, <<>>)
            ELSE LET collection ==
                         data.collections[IndexOfKey(data.collections, collectionId)].col
                     collection2 == [collection EXCEPT
                                       !.placeIds = FilterNot(@, String(placeId))]
                     data2 == [data EXCEPT
                                 !.collections = PutKey(@, collectionId, collection2)]
                     w == L_setUserSavedData(ls, user, data2)
                 IN Returned(w.ls, "undefined", <<>>, w.events)

L_getCollectionPlaceIds(ls, user, collectionId) ==
    IF user.null THEN Returned(ls, "array", <<>>, <<>>)
    ELSE LET data == L_getUserSavedData(ls, user)
         IN IF HasKey(data.collections, collectionId)
            THEN Returned(ls, "array",
                     data.collections[IndexOfKey(data.collections, collectionId)].col.placeIds,
                     <<>>)
            ELSE Returned(ls, "array", <<>>, <<>>)

L_isPlaceInCollection(ls, user, collectionId, placeId) ==
    IF user.null THEN Returned(ls, "boolean", FALSE, <<>>)
    ELSE Returned(ls, "boolean",
                  Includes(L_getCollectionPlaceIds(ls, user, collectionId).out.val,
                           String(placeId)), <<>>)

----------------------------------------------------------------------------
(* The saved-data layer, remote-auth implementation (src/unnamed/part_001): *)
(* the same functions as that file defines them, over its own storage item. *)

(* JSON.parse of a text JSON.stringify wrote gives the value back; the item *)
(* is only ever written by setSavedStore, so the catch branch is not taken. *)
R_parseJSON(raw, fallback) == IF raw = <<>> THEN fallback ELSE raw[1]

R_getSavedStore(ls) == R_parseJSON(ls, EmptyObject)

R_setSavedStore(store) == <<store>>

R_emitSavedChange(email) == [type |-> "seamline:saved-change", email |-> email]

R_normalizeCollections(collections) ==
    [i \in 1..Len(collections) |->
        LET col == collections[i].col
            nid == IF col.id # "" THEN col.id ELSE collections[i].key
        IN [key |-> nid,
            col |-> [id |-> nid,
                     name |-> IF col.name # <<>> THEN col.name ELSE DefaultName,
                     placeIds |-> col.placeIds]]]

(* entry: <<>> for undefined, <<e>> for a stored entry.  Entries are written *)
(* by setUserSavedData only, so they are objects, never the legacy array.    *)
R_normalizeEntry(entry) ==
    IF entry = <<>> THEN EmptyData
    ELSE [items |-> entry[1].items,
          collections |-> R_normalizeCollections(entry[1].collections)]

R_getUserSavedData(ls, user) ==
    IF user.null THEN EmptyData
    ELSE LET store == R_getSavedStore(ls)
         IN R_normalizeEntry(IF user.email \in DOMAIN store
                             THEN <<store[user.email]>> ELSE <<>>)

R_setUserSavedData(ls, user, data) ==
    IF user.null THEN [ls |-> ls, events |-> <<>>]
    ELSE LET store == R_getSavedStore(ls)
             written == [e \in DOMAIN store \cup {user.email} |->
                            IF e = user.email THEN data ELSE store[e]]
         IN [ls |-> R_setSavedStore(written),
             events |-> <<R_emitSavedChange(user.email)>>]

R_getSavedPlaceIds(ls, user) ==
    IF user.null THEN Returned(ls, "array", <<>>, <<>>)
    ELSE Returned(ls, "array", R_getUserSavedData(ls, user).items, <<>>)

R_isPlaceSaved(ls, user, placeId) ==
    IF user.null THEN Returned(ls, "boolean", FALSE, <<>>)
    ELSE Returned(ls, "boolean",
                  Includes(R_getSavedPlaceIds(ls, user).out.val, String(placeId)), <<>>)

R_savePlace(ls, user, placeId) ==
    IF user.null THEN Thrown(ls, "Login required")
    ELSE LET data == R_getUserSavedData(ls, user)
             ids == ArrayFromSet(Append(data.items, String(placeId)))
             data2 == [data EXCEPT !.items = ids]
             w == R_setUserSavedData(ls, user, data2)
         IN Returned(w.ls, "array", data2.items, w.events)

(* removeSavedPlace tidying away the collections it empties *)
M_removeSavedPlace_dropEmptied(ls, user, placeId) ==
    IF user.null THEN Thrown(ls, "Login required")
    ELSE LET targetId == String(placeId)
             data == R_getUserSavedData(ls, user)
             cols == [i \in 1..Len(data.collections) |->
                        [data.collections[i] EXCEPT
                            !.col.placeIds = FilterNot(@, targetId)]]
             data2 == [items |-> FilterNot(data.items, targetId),
                       collections |-> SelectSeq(cols, LAMBDA c : c.col.placeIds # <<>>)]
             w == R_setUserSavedData(ls, user, data2)
         IN Returned(w.ls, "array", data2.items, w.events)

R_removeSavedPlace(ls, user, placeId) ==
    IF user.null THEN Thrown(ls, "Login required")
    ELSE LET targetId == String(placeId)
             data == R_getUserSavedData(ls, user)
             items == FilterNot(data.items, targetId)
             cols == [i \in 1..Len(data.collections) |->
                        [data.collections[i] EXCEPT
                            !.col.placeIds = FilterNot(@, targetId)]]
             data2 == [items |-> items, collections |-> cols]
             w == R_setUserSavedData(ls, user, data2)
         IN Returned(w.ls, "array", data2.items, w.events)

R_getCollections(ls, user) ==
    IF user.null THEN Returned(ls, "array", <<>>, <<>>)
    ELSE Returned(ls, "array",
                  ObjectValues(R_getUserSavedData(ls, user).collections), <<>>)

(* createCollection storing the name as typed, blanks and all *)
M_createCollection_untrimmed(ls, user, name, id) ==
    IF user.null THEN Thrown(ls, "Login required")
    ELSE IF Trim(name) = <<>> THEN Thrown(ls, "Collection name is required.")
    ELSE LET data == R_getUserSavedData(ls, user)
             col == [id |-> id, name |-> name, placeIds |-> <<>>]
             data2 == [data EXCEPT !.collections = PutKey(@, id, col)]
             w == R_setUserSavedData(ls, user, data2)
         IN Returned(w.ls, "collection", col, w.events)

(* id: what generateCollectionId() gave this call *)
R_createCollection(ls, user, name, id) ==
    IF user.null THEN Thrown(ls, "Login required")
    ELSE LET trimmed == Trim(name)
         IN IF trimmed = <<>> THEN Thrown(ls, "Collection name is required.")
            ELSE LET data == R_getUserSavedData(ls, user)
                     col == [id |-> id, name |-> trimmed, placeIds |-> <<>>]
                     data2 == [data EXCEPT
                                 !.collections = PutKey(@, id, col)]
                     w == R_setUserSavedData(ls, user, data2)
                 IN Returned(w.ls, "collection", col, w.events)

R_deleteCollection(ls, user, collectionId) ==
    IF user.null THEN Thrown(ls, "Login required")
    ELSE LET data == R_getUserSavedData(ls, user)
             data2 == [data EXCEPT !.collections = DeleteKey(@, collectionId)]
             w == R_setUserSavedData(ls, user, data2)
         IN Returned(w.ls, "undefined", <<>>, w.events)

R_addPlaceToCollection(ls, user, collectionId, placeId) ==
    IF user.null THEN Thrown(ls, "Login required")
    ELSE LET data == R_getUserSavedData(ls, user)
         IN IF ~HasKey(data.collections, collectionId)
            THEN Thrown(ls, "Collection not found.")
            ELSE LET collection ==
                         data.collections[IndexOfKey(data.collections, collectionId)].col
                     items == IF Includes(data.items, String(placeId))
                              THEN data.items
                              ELSE Append(data.items, String(placeId))
                     ids == ArrayFromSet(Append(collection.placeIds, String(placeId)))
                     collection2 == [collection EXCEPT !.placeIds = ids]
                     data2 == [items |-> items,
                               collections |->
                                   PutKey(data.collections, collectionId, collection2)]
                     w == R_setUserSavedData(ls, user, data2)
                 IN Returned(w.ls, "collection", collection2, w.events)

R_removePlaceFromCollection(ls, user, collectionId, placeId) ==
    IF user.null THEN Thrown(ls, "Login required")
    ELSE LET data == R_getUserSavedData(ls, user)
         IN IF ~HasKey(data.collections, collectionId)
            THEN Returned(ls, "undefined", <<>>, <<>>)
            ELSE LET collection ==
                         data.collections[IndexOfKey(data.collections, collectionId)].col
                     collection2 == [collection EXCEPT
                                       !.placeIds = FilterNot(@, String(placeId))]
                     data2 == [data EXCEPT
                                 !.collections = PutKey(@, collectionId, collection2)]
                     w == R_setUserSavedData(ls, user, data2)
                 IN Returned(w.ls, "undefined", <<>>, w.events)

R_getCollectionPlaceIds(ls, user, collectionId) ==
    IF user.null THEN Returned(ls, "array", <<>>, <<>>)
    ELSE LET data == R_getUserSavedData(ls, user)
         IN IF HasKey(data.collections, collectionId)
            THEN Returned(ls, "array",
                     data.collections[IndexOfKey(data.collections, collectionId)].col.placeIds,
                     <<>>)
            ELSE Returned(ls, "array", <<>>, <<>>)

R_isPlaceInCollection(ls, user, collectionId, placeId) ==
    IF user.null THEN Returned(ls, "boolean", FALSE, <<>>)
    ELSE Returned(ls, "boolean",
                  Includes(R_getCollectionPlaceIds(ls, user, collectionId).out.val,
                           String(placeId)), <<>>)

----------------------------------------------------------------------------
(* The callers of the saved-data layer: any page may call any function, for  *)
(* the signed-in user or for null.  Both implementations get the same call.  *)

NoEmail == ""

Callers == Emails \cup {NoEmail}

UserL(e) == IF e = NoEmail THEN NullUser ELSE LocalUser(e)

UserR(e) == IF e = NoEmail THEN NullUser ELSE RemoteUser(e)

NoPlace == [t |-> "none", v |-> 0]

NoOut == [kind |-> "none", val |-> <<>>, events |-> <<>>]

(* hit: whether the call found what it is about (see each action) *)
CallOf(op, e, cid, pid, name, hit) ==
    [op |-> op, email |-> e, cid |-> cid, pid |-> pid, name |-> name, hit |-> hit]

(* before the call: is the place in the flat list, does the collection exist, *)
(* is the place in the collection (read through the local implementation)     *)
Saved(e, p) == L_isPlaceSaved(lsL, UserL(e), p).out.val

Exists(e, c) == HasKey(L_getUserSavedData(lsL, UserL(e)).collections, c)

Holds(e, c, p) == L_isPlaceInCollection(lsL, UserL(e), c, p).out.val

(* generateCollectionId(): `col-<time>-<random>`, one of the ids of ColIds *)
generateCollectionId == ColIds

Mutators == {"savePlace", "removeSavedPlace", "createCollection",
             "deleteCollection", "addPlaceToCollection", "removePlaceFromCollection"}

SavedStart(who, n) ==
    /\ callers = who
    /\ budget = n
    /\ lsL = <<>>
    /\ lsR = <<>>
    /\ outL = NoOut
    /\ outR = NoOut
    /\ last = CallOf("none", NoEmail, "", NoPlace, <<>>, FALSE)
    /\ nOps = 0

Did(l, r, call) ==
    /\ nOps < budget
    /\ nOps' = nOps + 1
    /\ UNCHANGED <<callers, budget, notSavedVars>>
    /\ lsL' = l.ls
    /\ outL' = l.out
    /\ lsR' = r.ls
    /\ outR' = r.out
    /\ last' = call

SavePlace ==
    \E e \in callers, p \in PlaceArgs :
        Did(L_savePlace(lsL, UserL(e), p), R_savePlace(lsR, UserR(e), p),
            CallOf("savePlace", e, "", p, <<>>, Saved(e, p)))

RemoveSavedPlace ==
    \E e \in callers, p \in PlaceArgs :
        Did(L_removeSavedPlace(lsL, UserL(e), p), R_removeSavedPlace(lsR, UserR(e), p),
            CallOf("removeSavedPlace", e, "", p, <<>>,
                   Saved(e, p) /\ \E c \in ColIds : Holds(e, c, p)))

CreateCollection ==
    \E e \in callers, name \in RawNames, id \in generateCollectionId :
        Did(L_createCollection(lsL, UserL(e), name, id),
            R_createCollection(lsR, UserR(e), name, id),
            CallOf("createCollection", e, id, NoPlace, name, Exists(e, id)))

DeleteCollection ==
    \E e \in callers, c \in ColIds :
        Did(L_deleteCollection(lsL, UserL(e), c), R_deleteCollection(lsR, UserR(e), c),
            CallOf("deleteCollection", e, c, NoPlace, <<>>,
                   \E p \in PlaceArgs : Holds(e, c, p)))

AddPlaceToCollection ==
    \E e \in callers, c \in ColIds, p \in PlaceArgs :
        Did(L_addPlaceToCollection(lsL, UserL(e), c, p),
            R_addPlaceToCollection(lsR, UserR(e), c, p),
            CallOf("addPlaceToCollection", e, c, p, <<>>, Exists(e, c)))

RemovePlaceFromCollection ==
    \E e \in callers, c \in ColIds, p \in PlaceArgs :
        Did(L_removePlaceFromCollection(lsL, UserL(e), c, p),
            R_removePlaceFromCollection(lsR, UserR(e), c, p),
            CallOf("removePlaceFromCollection", e, c, p, <<>>, Holds(e, c, p)))

SavedNext ==
    \/ SavePlace
    \/ RemoveSavedPlace
    \/ CreateCollection
    \/ DeleteCollection
    \/ AddPlaceToCollection
    \/ RemovePlaceFromCollection

(* the saved-data layer left idle, for the runs of the other parts *)
SavedIdle == SavedStart({}, 0)

----------------------------------------------------------------------------
(* The sanitizer's pure functions (src/unnamed/part_001, sanitizer.js)      *)

(* A JavaScript value passed where text is expected *)
Null == [t |-> "null", s |-> <<>>]

Undefined == [t |-> "undefined", s |-> <<>>]

Str(s) == [t |-> "string", s |-> s]

(* all strings over chars of length at most n *)
Strings(chars, n) == UNION {[1..k -> chars] : k \in 0..n}

(* str.replace(/ch/g, entity) *)
RECURSIVE ReplaceAll(_, _, _)
ReplaceAll(s, ch, entity) ==
    IF s = <<>> THEN <<>>
    ELSE (IF Head(s) = ch THEN entity ELSE <<Head(s)>>) \o ReplaceAll(Tail(s), ch, entity)

(* escapeHtml replacing & after the other characters *)
M_escapeHtml_ampLast(unsafe) ==
    IF unsafe.t \in {"null", "undefined"} THEN <<>>
    ELSE LET s1 == ReplaceAll(unsafe.s, "<", <<"&", "l", "t", ";">>)
             s2 == ReplaceAll(s1, ">", <<"&", "g", "t", ";">>)
             s3 == ReplaceAll(s2, "\"", <<"&", "q", "u", "o", "t", ";">>)
             s4 == ReplaceAll(s3, "'", <<"&", "#", "0", "3", "9", ";">>)
             s5 == ReplaceAll(s4, "/", <<"&", "#", "x", "2", "F", ";">>)
         IN ReplaceAll(s5, "&", <<"&", "a", "m", "p", ";">>)

escapeHtml(unsafe) ==
    IF unsafe.t \in {"null", "undefined"} THEN <<>>
    ELSE LET s1 == ReplaceAll(unsafe.s, "&", <<"&", "a", "m", "p", ";">>)
             s2 == ReplaceAll(s1, "<", <<"&", "l", "t", ";">>)
             s3 == ReplaceAll(s2, ">", <<"&", "g", "t", ";">>)
             s4 == ReplaceAll(s3, "\"", <<"&", "q", "u", "o", "t", ";">>)
             s5 == ReplaceAll(s4, "'", <<"&", "#", "0", "3", "9", ";">>)
         IN ReplaceAll(s5, "/", <<"&", "#", "x", "2", "F", ";">>)

UpperCase == <<"A", "B", "C", "D", "E", "F", "G", "H", "I", "J", "K", "L", "M", "N", "O", "P", "Q", "R", "S", "T", "U", "V", "W", "X", "Y", "Z">>

LowerCase == <<"a", "b", "c", "d", "e", "f", "g", "h", "i", "j", "k", "l", "m", "n", "o", "p", "q", "r", "s", "t", "u", "v", "w", "x", "y", "z">>

(* one character of String.prototype.toLowerCase / toUpperCase *)
ToLower(c) ==
    IF \E i \in 1..Len(UpperCase) : UpperCase[i] = c
    THEN LowerCase[CHOOSE i \in 1..Len(UpperCase) : UpperCase[i] = c]
    ELSE c

ToUpper(c) ==
    IF \E i \in 1..Len(LowerCase) : LowerCase[i] = c
    THEN UpperCase[CHOOSE i \in 1..Len(LowerCase) : LowerCase[i] = c]
    ELSE c

(* /^(javascript|data|vbscript|file|about):/i *)
dangerousProtocols ==
    {<<"j", "a", "v", "a", "s", "c", "r", "i", "p", "t">>,
     <<"d", "a", "t", "a">>, <<"v", "b", "s", "c", "r", "i", "p", "t">>,
     <<"f", "i", "l", "e">>, <<"a", "b", "o", "u", "t">>}

(* /^(https?|mailto|tel|sms):/i *)
safeProtocols ==
    {<<"h", "t", "t", "p">>, <<"h", "t", "t", "p", "s">>, <<"m", "a", "i", "l", "t", "o">>,
     <<"t", "e", "l">>, <<"s", "m", "s">>}

(* the regular expression tested without its i flag *)
M_Test_caseSensitive(protocols, s) ==
    \E w \in protocols :
        /\ Len(s) > Len(w)
        /\ \A i \in 1..Len(w) : s[i] = w[i]
        /\ s[Len(w) + 1] = ":"

(* /^(w1|w2|...):/i.test(s) *)
Test(protocols, s) ==
    \E w \in protocols :
        /\ Len(s) > Len(w)
        /\ \A i \in 1..Len(w) : ToLower(s[i]) = w[i]
        /\ s[Len(w) + 1] = ":"

HttpsPrefix == <<"h", "t", "t", "p", "s", ":", "/", "/">>

sanitizeUrl(url) ==
    IF url.t # "string" \/ url.s = <<>> THEN <<>>
    ELSE LET urlStr == Trim(url.s)
         IN IF Test(dangerousProtocols, urlStr) THEN <<>>
            ELSE IF Test(safeProtocols, urlStr) THEN urlStr
            ELSE HttpsPrefix \o urlStr

(* str.replace(/<[^>]*>/g, ''): from each "<" that has a ">" after it, the *)
(* text up to the first such ">" is removed                                  *)
RECURSIVE RemoveTags(_)
RemoveTags(s) ==
    IF s = <<>> THEN s
    ELSE IF Head(s) = "<" /\ Includes(Tail(s), ">")
         THEN LET close == CHOOSE i \in 2..Len(s) :
                              s[i] = ">" /\ \A j \in 2..(i - 1) : s[j] # ">"
              IN RemoveTags(SubSeq(s, close + 1, Len(s)))
         ELSE <<Head(s)>> \o RemoveTags(Tail(s))

stripHtmlTags(html) ==
    IF html.t \in {"null", "undefined"} \/ html.s = <<>> THEN <<>>
    ELSE RemoveTags(html.s)

(* the input of the documentation's example (SECURITY_UTILS.md 113) *)
DocumentedHtml ==
    <<"<", "b", ">", "H", "e", "l", "l", "o", "<", "/", "b", ">", " ", "<",
      "s", "c", "r", "i", "p", "t", ">", "a", "l", "e", "r", "t", "(", "1",
      ")", "<", "/", "s", "c", "r", "i", "p", "t", ">", "W", "o", "r", "l",
      "d">>

(* and the result the documentation gives for it (SECURITY_UTILS.md 114) *)
DocumentedText ==
    <<"H", "e", "l", "l", "o", " ", "W", "o", "r", "l", "d">>

MaxTagLen == 4

(* Arguments of stripHtmlTags: null, undefined, every short string over the *)
(* two angle brackets and a letter, and the documented input.               *)
TagInputs ==
    {Null, Undefined, Str(DocumentedHtml)}
        \cup {Str(s) : s \in Strings({"<", ">", "a"}, MaxTagLen)}

(* sanitizePhotoArray(photos, maxCount): photos is an array of values, or   *)
(* a value that is not an array                                              *)
Array(items) == [array |-> TRUE, items |-> items]

NotAnArray == [array |-> FALSE, items |-> <<>>]

M_sanitizePhotoArray_filterFirst(photos, maxCount) ==
    IF ~photos.array THEN <<>>
    ELSE LET mapped == [i \in 1..Len(photos.items) |-> sanitizeUrl(photos.items[i])]
             kept == SelectSeq(mapped, LAMBDA url : url # <<>>)
         IN SubSeq(kept, 1, IF Len(kept) < maxCount THEN Len(kept) ELSE maxCount)

sanitizePhotoArray(photos, maxCount) ==
    IF ~photos.array THEN <<>>
    ELSE LET end == IF Len(photos.items) < maxCount THEN Len(photos.items) ELSE maxCount
             sliced == SubSeq(photos.items, 1, end)
             mapped == [i \in 1..Len(sliced) |-> sanitizeUrl(sliced[i])]
         IN SelectSeq(mapped, LAMBDA url : url # <<>>)

MaxPhotos == 3

(* Photo values: null, '', a blank, a javascript: and an upper-case DATA:   *)
(* URL, an https URL between blanks and a bare host                         *)
PhotoValues ==
    {Null, Str(<<>>), Str(<<" ">>),
     Str(<<"j", "a", "v", "a", "s", "c", "r", "i", "p", "t", ":", "x">>),
     Str(<<" ", "D", "A", "T", "A", ":", "x">>),
     Str(<<" ">> \o HttpsPrefix \o <<"a", " ">>),
     Str(<<"b">>)}

PhotoInputs ==
    [photos : {NotAnArray} \cup {Array(items) : items \in Strings(PhotoValues, MaxPhotos)},
     maxCount : 0..MaxPhotos]

(* Arguments of escapeHtml: null, undefined and every short string over the  *)
(* characters it replaces and two it does not.                              *)
MaxHtmlLen == 3

HtmlChars == {"&", "<", ">", "\"", "'", "/", "a", ";"}

HtmlInputs == {Null, Undefined} \cup {Str(s) : s \in Strings(HtmlChars, MaxHtmlLen)}

(* Arguments of sanitizeUrl: a protocol word or none, in lower case, upper   *)
(* case or capitalised, with or without its colon, after an optional blank, *)
(* followed by a short rest that may hold blanks.                           *)
MaxRestLen == 2

UrlWords == dangerousProtocols \cup safeProtocols
                \cup {<<>>, <<"f", "t", "p">>, <<"d", "a", "t">>}

Cased(w, how) ==
    CASE how = "lower" -> w
      [] how = "upper" -> [i \in 1..Len(w) |-> ToUpper(w[i])]
      [] how = "first" -> [i \in 1..Len(w) |-> IF i = 1 THEN ToUpper(w[i]) ELSE w[i]]

UrlInputs ==
    {Null, Undefined} \cup
    {Str(lead \o Cased(w, how) \o sep \o rest) :
        lead \in {<<>>, <<" ">>}, w \in UrlWords, how \in {"lower", "upper", "first"},
        sep \in {<<>>, <<":">>}, rest \in Strings({"x", "/", " "}, MaxRestLen)}

PureIdle == fn = "idle" /\ arg = Null /\ res = <<>>

PureStart(inputs) == fn = "input" /\ arg \in inputs /\ res = <<>>

Call(name, value) ==
    /\ fn = "input"
    /\ fn' = name
    /\ res' = value
    /\ UNCHANGED <<arg, notPureVars>>

EscapeHtml == Call("escapeHtml", escapeHtml(arg))

SanitizeUrl == Call("sanitizeUrl", sanitizeUrl(arg))

StripHtmlTags == Call("stripHtmlTags", stripHtmlTags(arg))

SanitizePhotoArray == Call("sanitizePhotoArray", sanitizePhotoArray(arg.photos, arg.maxCount))

----------------------------------------------------------------------------
(* The category filters (src/unnamed/part_008, filters.js), the map page     *)
(* (src/src/home.js) and the list page (src/src/listPage.js 1-33,            *)
(* src/unnamed/part_008 40-82) with the filter buttons of src/ui/list.js.    *)
(* A category passed around is a string, <<>> when it is null or empty; a    *)
(* field of a place is a string or undefined.                                *)

MaxPlaces == 2

toLowerCase(s) == [i \in 1..Len(s) |-> ToLower(s[i])]

ONLINE == <<"o", "n", "l", "i", "n", "e">>

ALL == <<"a", "l", "l">>

(* isOnlinePlace comparing the type without trimming it *)
M_isOnlinePlace_untrimmed(place) ==
    \/ place.type.t = "string" /\ toLowerCase(place.type.s) = ONLINE
    \/ place.category.t = "string" /\ toLowerCase(Trim(place.category.s)) = ONLINE

isOnlinePlace(place) ==
    \/ place.type.t = "string" /\ toLowerCase(Trim(place.type.s)) = ONLINE
    \/ place.category.t = "string" /\ toLowerCase(Trim(place.category.s)) = ONLINE

(* the categories of the places, in order of first appearance *)
RECURSIVE CategorySet(_)
CategorySet(ps) ==
    IF ps = <<>> THEN <<>>
    ELSE LET init == CategorySet(SubSeq(ps, 1, Len(ps) - 1))
             c == ps[Len(ps)].category
         IN IF c.t = "string" /\ c.s # <<>> /\ ~Includes(init, c.s)
            THEN Append(init, c.s) ELSE init

getCategoriesFromPlaces(ps, includeOnline) ==
    LET categories == <<ALL>> \o CategorySet(ps)
    IN IF /\ includeOnline
          /\ ~\E i \in 1..Len(categories) : toLowerCase(categories[i]) = ONLINE
          /\ \E i \in 1..Len(ps) : isOnlinePlace(ps[i])
       THEN Append(categories, <<"O", "n", "l", "i", "n", "e">>)
       ELSE categories

filterPlacesByCategory(ps, category) ==
    IF category = <<>> \/ category = ALL THEN ps
    ELSE IF toLowerCase(category) = ONLINE THEN SelectSeq(ps, isOnlinePlace)
    ELSE SelectSeq(ps, LAMBDA p : p.category.t = "string" /\ p.category.s = category)

(* addMarkers: a marker for each place that has coordinates *)
addMarkers(ps) == SelectSeq(ps, LAMBDA p : p.coords)

(* src/ui/list.js *)
capitalize(value) ==
    IF value = <<>> THEN value ELSE <<ToUpper(Head(value))>> \o Tail(value)

normalizeLabel(category) ==
    LET key == toLowerCase(Trim(category))
    IN IF key \in {<<"f", "a", "b", "r", "i", "c", " ", "s", "h", "o", "p">>, <<"f", "a", "b", "r", "i", "c", "s">>} THEN capitalize(<<"f", "a", "b", "r", "i", "c", "s">>)
       ELSE IF key = <<"t", "r", "i", "m", "m", "i", "n", "g">> THEN capitalize(<<"t", "r", "i", "m", "m", "i", "n", "g", "s">>)
       ELSE category

preferredOrder ==
    <<ALL, <<"f", "a", "b", "r", "i", "c", "s">>, <<"t", "r", "i", "m", "m", "i", "n", "g", "s">>, <<"k", "n", "i", "t", "/", "e", "m", "b", "r", "o", "i", "d", "e", "r", "y">>, <<"l", "e", "a", "t", "h", "e", "r">>, <<"s", "e", "r", "v", "i", "c", "e", "s">>, <<"m", "a", "r", "k", "e", "t", "s">>>>

(* the categories in the order renderFilters makes their buttons *)
orderCategories(categories) ==
    LET normalized(cat) == toLowerCase(Trim(normalizeLabel(cat)))
        found(key) == {i \in 1..Len(categories) : normalized(categories[i]) = key}
        first(key) == CHOOSE i \in found(key) : \A j \in found(key) : i <= j
        keys == SelectSeq(preferredOrder, LAMBDA key : found(key) # {})
        ordered == [k \in 1..Len(keys) |-> categories[first(keys[k])]]
        remaining == SelectSeq(categories,
                        LAMBDA cat : ~Includes(preferredOrder, normalized(cat)))
    IN ordered \o remaining

(* The places fetched: with or without a category, a type and coordinates *)
PlaceCategories == {Undefined, Str(<<"F", "a", "b", "r", "i", "c", "s">>), Str(ONLINE), Str(<<"O", "n", "l", "i", "n", "e">> \o <<" ">>)}

PlaceTypes == {Undefined, Str(<<" ">> \o <<"O", "n", "l", "i", "n", "e">>)}

Places ==
    [category : PlaceCategories, type : PlaceTypes, coords : BOOLEAN]
        \cup {[category |-> Str(<<"F", "a", "b", "r", "i", "c", "s">>),
               type |-> Str(<<"s", "h", "o", "p">>), coords |-> TRUE]}

(* ?category=... of the list page's address, <<>> when absent *)
CategoryParams == {<<>>, <<"O", "n", "l", "i", "n", "e">>, ONLINE, <<"F", "a", "b", "r", "i", "c", "s">>}

Page(name, loaded, all, categories, selected, shown) ==
    [page |-> name, loaded |-> loaded, all |-> all, categories |-> categories,
     selected |-> selected, shown |-> shown]

ViewIdle == places = <<>> /\ view = Page("none", FALSE, <<>>, <<>>, <<>>, <<>>)

ViewsStart ==
    /\ places \in UNION {[1..n -> Places] : n \in 0..MaxPlaces}
    /\ view \in {Page(name, FALSE, <<>>, <<>>, <<>>, <<>>) : name \in {"home", "list"}}

(* home.js 45-61: the map page over data/places.json *)
HomeLoadLocal ==
    /\ view.page = "home" /\ ~view.loaded
    /\ LET allPlaces == SelectSeq(places, LAMBDA p : ~isOnlinePlace(p))
           categories == getCategoriesFromPlaces(allPlaces, FALSE)
       IN view' = Page("home", TRUE, allPlaces, orderCategories(categories),
                       ALL, addMarkers(allPlaces))
    /\ UNCHANGED <<places, notViewVars>>

(* home.js 155-188: the map page over the places table *)
HomeLoadRemote ==
    /\ view.page = "home" /\ ~view.loaded
    /\ \E error \in BOOLEAN :
         IF error \/ places = <<>>
         THEN view' = Page("home", TRUE, <<>>, <<>>, <<>>, <<>>)
         ELSE LET allPlaces == SelectSeq(places, LAMBDA p : ~isOnlinePlace(p))
                  categories == getCategoriesFromPlaces(allPlaces, FALSE)
              IN view' = Page("home", TRUE, allPlaces, orderCategories(categories),
                              ALL, addMarkers(allPlaces))
    /\ UNCHANGED <<places, notViewVars>>

(* a filter button of the map page is clicked *)
HomeSelect ==
    /\ view.page = "home" /\ view.loaded
    /\ \E i \in 1..Len(view.categories) :
         LET category == view.categories[i]
         IN view' = [view EXCEPT
                        !.selected = category,
                        !.shown = addMarkers(filterPlacesByCategory(view.all, category))]
    /\ UNCHANGED <<places, notViewVars>>

(* listPage.js 12-33, part_008 52-80: the list page *)
ListLoad ==
    /\ view.page = "list" /\ ~view.loaded
    /\ \E categoryFromUrl \in CategoryParams, error \in BOOLEAN :
         IF error
         THEN view' = Page("list", TRUE, <<>>, <<>>, <<>>, <<>>)
         ELSE LET categories == getCategoriesFromPlaces(places, TRUE)
                  initialCategory == IF categoryFromUrl # <<>> THEN categoryFromUrl ELSE ALL
              IN view' = Page("list", TRUE, places, orderCategories(categories),
                              initialCategory,
                              filterPlacesByCategory(places, initialCategory))
    /\ UNCHANGED <<places, notViewVars>>

(* a filter button of the list page is clicked *)
ListSelect ==
    /\ view.page = "list" /\ view.loaded
    /\ \E i \in 1..Len(view.categories) :
         LET category == view.categories[i]
         IN view' = [view EXCEPT
                        !.selected = category,
                        !.shown = filterPlacesByCategory(view.all, category)]
    /\ UNCHANGED <<places, notViewVars>>

ViewsNext ==
    \/ HomeLoadLocal
    \/ HomeLoadRemote
    \/ HomeSelect
    \/ ListLoad
    \/ ListSelect

----------------------------------------------------------------------------
(* The place-submission page (src/unnamed/part_007, submit.js) with the      *)
(* validators it calls (src/unnamed/part_000, validator.js) and the auth     *)
(* cache it reads (src/unnamed/part_001).                                    *)
(*                                                                           *)
(* The text of a form field is kept by its shape: `lead` blanks, then `n`    *)
(* characters that begin and end with a non-blank, then `trail` blanks; and  *)
(* `kind` says what the n characters are:                                    *)
(*   "plain"  a host and a path, such as a.com/aaa...                        *)
(*   "http"   the same after https://                                        *)
(*   "js"     text that begins with javascript:                              *)
(*   "html"   text holding a tag, such as <b>aaa...                          *)
(*   "digits" digits only                                                    *)
(*   "nul"    text holding a null byte                                       *)
(*   "ftp"    text that begins with ftp://                                   *)
(*   "number" a value that is not a string (a number, an object)             *)
(* null and '' are the text with no characters at all.                       *)

Text(lead, n, trail, kind) == [lead |-> lead, n |-> n, trail |-> trail, kind |-> kind]

NullText == Text(0, 0, 0, "plain")

length(x) == x.lead + x.n + x.trail

(* String.prototype.trim on a text kept by its shape *)
trim(x) == IF x.n = 0 THEN NullText ELSE Text(0, x.n, 0, x.kind)

Valid(value) == [ok |-> TRUE, value |-> value, message |-> ""]

Invalid(message) == [ok |-> FALSE, value |-> NullText, message |-> message]

validateName(name, minLength, maxLength) ==
    LET trimmed == trim(name)
    IN IF length(name) = 0 THEN Invalid("Name is required")
       ELSE IF length(trimmed) < minLength THEN Invalid("Name must be at least")
       ELSE IF length(trimmed) > maxLength THEN Invalid("Name is too long")
       ELSE IF trimmed.kind = "html" THEN Invalid("Name contains invalid characters (HTML)")
       ELSE IF trimmed.kind \in {"js", "nul"} THEN Invalid("Name contains invalid characters")
       ELSE Valid(trimmed)

validateUrl(url, required) ==
    LET trimmed == trim(url)
        urlWithProtocol == IF trimmed.kind = "http" THEN trimmed
                           ELSE Text(0, 8 + trimmed.n, 0, "http")
    IN IF url.kind = "number" \/ length(trimmed) = 0
       THEN IF required THEN Invalid("URL is required") ELSE Valid(NullText)
       ELSE IF length(trimmed) > 2000 THEN Invalid("URL is too long (maximum 2000 characters)")
       ELSE IF trimmed.kind = "js" THEN Invalid("Invalid URL protocol")
       ELSE IF trimmed.kind \in {"html", "nul"} THEN Invalid("Invalid URL format")
       ELSE Valid(urlWithProtocol)

validatePhone(phone, required) ==
    LET trimmed == trim(phone)
    IN IF length(trimmed) = 0
       THEN IF required THEN Invalid("Phone number is required") ELSE Valid(NullText)
       ELSE IF length(trimmed) < 7 THEN Invalid("Phone number is too short")
       ELSE IF length(trimmed) > 20 THEN Invalid("Phone number is too long")
       ELSE IF trimmed.kind # "digits" THEN Invalid("Phone number contains invalid characters")
       ELSE Valid(trimmed)

validateText(text, maxLength, required) ==
    LET trimmed == trim(text)
    IN IF length(trimmed) = 0
       THEN IF required THEN Invalid("Text is required") ELSE Valid(NullText)
       ELSE IF length(trimmed) > maxLength THEN Invalid("Text is too long")
       ELSE IF trimmed.kind = "nul" THEN Invalid("Text contains invalid characters")
       ELSE Valid(trimmed)

(* the handler's validation block, lines 177-206: the validated fields or   *)
(* the message of the first error thrown                                     *)
NoFields ==
    [name |-> NullText, category |-> NullText, address |-> NullText,
     pop_up |-> NullText, website |-> NullText, phone |-> NullText,
     opening_hours |-> NullText, more_info |-> NullText, average_price |-> NullText]

Throws(message) == [ok |-> FALSE, message |-> message, fields |-> NoFields]

validateForm(form) ==
    LET name == validateName(form.name, 2, 200)
        category == form.category
        address == trim(form.address)
        websiteInput == trim(form.website)
        website == IF length(websiteInput) # 0 THEN validateUrl(websiteInput, FALSE)
                   ELSE Valid(NullText)
        phoneInput == trim(form.phone)
        phone == IF length(phoneInput) # 0 THEN validatePhone(phoneInput, FALSE)
                 ELSE Valid(NullText)
        pop_up == validateText(form.pop_up, 200, TRUE)
        opening_hours == validateText(form.opening_hours, 1000, FALSE)
        more_info == validateText(form.more_info, 2000, FALSE)
        average_price == validateText(form.average_price, 100, FALSE)
    IN IF ~name.ok THEN Throws(name.message)
       ELSE IF length(category) = 0 THEN Throws("Please select a category")
       ELSE IF length(address) < 5 THEN Throws("Please enter a valid address")
       ELSE IF ~website.ok THEN Throws(website.message)
       ELSE IF ~phone.ok THEN Throws(phone.message)
       ELSE IF ~pop_up.ok THEN Throws(pop_up.message)
       ELSE IF length(pop_up.value) < 100
            THEN Throws("Brief description must be at least 100 characters")
       ELSE IF ~opening_hours.ok THEN Throws(opening_hours.message)
       ELSE IF ~more_info.ok THEN Throws(more_info.message)
       ELSE IF ~average_price.ok THEN Throws(average_price.message)
       ELSE [ok |-> TRUE, message |-> "",
             fields |-> [name |-> name.value, category |-> category, address |-> address,
                         pop_up |-> pop_up.value, website |-> website.value,
                         phone |-> phone.value, opening_hours |-> opening_hours.value,
                         more_info |-> more_info.value,
                         average_price |-> average_price.value]]

(* placeData, lines 230-254 (tags and submitted_at left out) *)
placeData(fields, user) ==
    [name |-> fields.name, category |-> fields.category, address |-> fields.address,
     pop_up |-> fields.pop_up, hasCoords |-> TRUE,
     website |-> fields.website, phone |-> fields.phone,
     opening_hours |-> fields.opening_hours, more_info |-> fields.more_info,
     average_price |-> fields.average_price,
     approved |-> FALSE, submitted_by |-> user.id, slug |-> NullText]

Uids == {"u1", "u2"}

(* mapUser(data?.user): null when there is no session *)
mapUser(uid) ==
    IF uid = "" THEN NullUser
    ELSE [null |-> FALSE, id |-> uid, name |-> "n", email |-> uid]

(* One invocation of the submit handler.  pc: "idle" (not yet invoked),      *)
(* "awaitUser" (line 156), "geocoding" (line 213), "inserting" (line 262),   *)
(* "done", "failed" (the catch block), "rejected" (line 162) or "aborted"    *)
(* (the await of line 156 threw).  trace: what it has done so far.           *)
Run(pc, user, fields, inserted, message, trace) ==
    [pc |-> pc, user |-> user, fields |-> fields, inserted |-> inserted,
     message |-> message, trace |-> trace]

IdleRun == Run("idle", NullUser, <<>>, <<>>, "", <<>>)

(* the handler going on without its return of line 162 *)
M_Checked_noReturn(user, form) ==
    LET v == validateForm(form)
    IN IF v.ok THEN Run("geocoding", user, <<v.fields>>, <<>>, "", <<"user", "validated">>)
       ELSE Run("failed", user, <<>>, <<>>, v.message, <<"user">>)

(* lines 157-213: from the user found to the geocoding request *)
Checked(user, form) ==
    IF user.null
    THEN Run("rejected", user, <<>>, <<>>, "Please sign in to submit a place.", <<>>)
    ELSE LET v == validateForm(form)
         IN IF v.ok
            THEN Run("geocoding", user, <<v.fields>>, <<>>, "", <<"user", "validated">>)
            ELSE Run("failed", user, <<>>, <<>>, v.message, <<"user">>)

(* submitBtn.disabled after lines 157-213 ran for an invocation *)
DisabledAfter(run, disabled) ==
    IF run.pc = "rejected" THEN disabled ELSE run.pc = "geocoding"

Slots == DOMAIN runs

SubmitStart(fs, n) ==
    /\ forms = fs
    /\ runs = [r \in 1..n |-> IdleRun]
    /\ auth = [ready |-> "pending", cachedUser |-> NullUser]
    /\ page = [disabled |-> FALSE, hidden |-> FALSE]

SubmitIdle == SubmitStart({}, 0)

(* part_001 27-36 and 246: getUser() answers; then, in the order they began  *)
(* to wait, the check of lines 304-322 and the handlers at line 156 go on.   *)
AuthReady ==
    /\ auth.ready = "pending"
    /\ \E uid \in Uids \cup {""}, f \in [{r \in Slots : runs[r].pc = "awaitUser"} -> forms] :
         LET user == mapUser(uid)
             waiting == DOMAIN f
             latest == CHOOSE r \in waiting : \A q \in waiting : q <= r
             resumed == [r \in Slots |-> IF r \in waiting THEN Checked(user, f[r])
                                         ELSE runs[r]]
         IN /\ auth' = [ready |-> "ready", cachedUser |-> user]
            /\ runs' = resumed
            /\ page' = [page EXCEPT !.disabled =
                          IF user.null THEN TRUE
                          ELSE IF waiting = {} THEN @
                          ELSE resumed[latest].pc = "geocoding"]
    /\ UNCHANGED <<forms, notSubmitVars>>

(* getUser() fails: every await of the promise throws *)
AuthFailed ==
    /\ auth.ready = "pending"
    /\ auth' = [auth EXCEPT !.ready = "failed"]
    /\ runs' = [r \in Slots |-> IF runs[r].pc = "awaitUser"
                                THEN [runs[r] EXCEPT !.pc = "aborted"] ELSE runs[r]]
    /\ UNCHANGED <<page, forms, notSubmitVars>>

(* part_001 241-244: the session changes (sign in or out, here or elsewhere) *)
AuthStateChange ==
    /\ \E uid \in Uids \cup {""} :
         /\ mapUser(uid) # auth.cachedUser
         /\ auth' = [auth EXCEPT !.cachedUser = mapUser(uid)]
    /\ UNCHANGED <<page, runs, forms, notSubmitVars>>

(* lines 151-213: the form is submitted *)
Submit ==
    /\ ~page.disabled /\ ~page.hidden
    /\ \E r \in Slots :
         /\ runs[r].pc = "idle"
         /\ \A q \in Slots : q < r => runs[q].pc # "idle"
         /\ IF ~auth.cachedUser.null \/ auth.ready = "ready"
            THEN \E form \in forms :
                   /\ runs' = [runs EXCEPT ![r] = Checked(auth.cachedUser, form)]
                   /\ page' = [page EXCEPT !.disabled = DisabledAfter(runs'[r], @)]
            ELSE /\ runs' = [runs EXCEPT ![r].pc =
                               IF auth.ready = "failed" THEN "aborted" ELSE "awaitUser"]
                 /\ page' = page
    /\ UNCHANGED <<auth, forms, notSubmitVars>>

(* lines 213-266: the geocoder answers; with coordinates the insert is sent *)
Geocoded ==
    /\ \E r \in Slots, answer \in {"coords", "null", "throw"} :
         /\ runs[r].pc = "geocoding"
         /\ IF answer = "coords"
            THEN /\ runs' = [runs EXCEPT ![r] =
                       Run("inserting", @.user, @.fields,
                           <<placeData(@.fields[1], @.user)>>, "",
                           @.trace \o <<"geocoded", "insert">>)]
                 /\ page' = page
            ELSE /\ runs' = [runs EXCEPT ![r].pc = "failed",
                                         ![r].message = "Could not find location."]
                 /\ page' = [page EXCEPT !.disabled = FALSE]
    /\ UNCHANGED <<auth, forms, notSubmitVars>>

(* lines 266-293: the database answers the insert *)
InsertAnswered ==
    /\ \E r \in Slots, error \in BOOLEAN :
         /\ runs[r].pc = "inserting"
         /\ IF error
            THEN /\ runs' = [runs EXCEPT ![r].pc = "failed",
                                         ![r].message = "Failed to submit place."]
                 /\ page' = [page EXCEPT !.disabled = FALSE]
            ELSE /\ runs' = [runs EXCEPT ![r].pc = "done"]
                 /\ page' = [page EXCEPT !.hidden = TRUE]
    /\ UNCHANGED <<auth, forms, notSubmitVars>>

SubmitNext ==
    \/ AuthReady
    \/ AuthFailed
    \/ AuthStateChange
    \/ Submit
    \/ Geocoded
    \/ InsertAnswered

(* What is typed into the form.  A valid form; the valid forms at the limits *)
(* of the rules; and the valid form with one field made invalid.             *)
MaxRuns == 2

ValidForm ==
    [name |-> Text(0, 2, 0, "plain"), category |-> Text(0, 7, 0, "plain"),
     address |-> Text(0, 5, 0, "plain"), pop_up |-> Text(0, 100, 0, "plain"),
     website |-> NullText, phone |-> NullText, opening_hours |-> NullText,
     more_info |-> NullText, average_price |-> NullText]

FormsAtLimits ==
    [name : {Text(0, 2, 0, "plain"), Text(1, 200, 1, "plain")},
     category : {Text(0, 7, 0, "plain")},
     address : {Text(1, 5, 0, "plain")},
     pop_up : {Text(0, 100, 0, "plain"), Text(1, 200, 1, "plain")},
     website : {NullText, Text(0, 2000, 0, "plain"), Text(0, 2000, 1, "http")},
     phone : {NullText, Text(0, 7, 0, "digits"), Text(1, 20, 0, "digits")},
     opening_hours : {NullText, Text(0, 1000, 0, "plain")},
     more_info : {Text(0, 2000, 0, "plain")},
     average_price : {Text(0, 100, 0, "plain")}]

InvalidForms ==
    {[ValidForm EXCEPT !.name = x] :
        x \in {NullText, Text(0, 1, 0, "plain"), Text(0, 201, 0, "plain"),
               Text(0, 10, 0, "html"), Text(0, 20, 0, "js")}}
    \cup {[ValidForm EXCEPT !.category = NullText],
          [ValidForm EXCEPT !.address = Text(2, 4, 2, "plain")],
          [ValidForm EXCEPT !.opening_hours = Text(0, 1001, 0, "plain")],
          [ValidForm EXCEPT !.more_info = Text(0, 2001, 0, "plain")],
          [ValidForm EXCEPT !.average_price = Text(0, 101, 0, "plain")]}
    \cup {[ValidForm EXCEPT !.website = x] :
            x \in {Text(0, 2001, 0, "plain"), Text(0, 30, 0, "js"), Text(0, 30, 0, "html")}}
    \cup {[ValidForm EXCEPT !.phone = x] :
            x \in {Text(0, 6, 0, "digits"), Text(0, 21, 0, "digits"), Text(0, 10, 0, "plain")}}
    \cup {[ValidForm EXCEPT !.pop_up = x] :
            x \in {NullText, Text(1, 0, 0, "plain"), Text(0, 99, 0, "plain"),
                   Text(0, 201, 0, "plain")}}

----------------------------------------------------------------------------
(* The sign-in calls of the remote-auth module (src/unnamed/part_001 57-91) *)
(* next to the lookup started at module load (27-36, 246) and the           *)
(* auth-state callback (241-244), which are AuthReady, AuthFailed and       *)
(* AuthStateChange above.  The requests are answered in any order.          *)

MaxCalls == 3

AuthCall(op, uid) == [op |-> op, uid |-> uid]

AuthCallsIdle == authCalls = [pending |-> {}, signedIn |-> NullUser, n |-> 0]

(* loginUser / signupUser with their fields filled in: the request is sent *)
SignInCalled ==
    /\ authCalls.n < MaxCalls
    /\ \E op \in {"login", "signup"}, uid \in Uids :
         authCalls' = [authCalls EXCEPT !.pending = @ \cup {AuthCall(op, uid)}, !.n = @ + 1]
    /\ UNCHANGED <<savedVars, pureVars, viewVars, submitVars, bannerVars, search>>

(* logoutUser: the request is sent *)
LogoutCalled ==
    /\ authCalls.n < MaxCalls
    /\ authCalls' = [authCalls EXCEPT !.pending = @ \cup {AuthCall("logout", "")}, !.n = @ + 1]
    /\ UNCHANGED <<savedVars, pureVars, viewVars, submitVars, bannerVars, search>>

(* the .then of signupUser / loginUser: an error is thrown on, a user is cached *)
SignInAnswered ==
    /\ \E call \in authCalls.pending, error \in BOOLEAN :
         /\ call.op \in {"login", "signup"}
         /\ IF error
            THEN /\ auth' = auth
                 /\ authCalls' = [authCalls EXCEPT !.pending = @ \ {call}]
            ELSE /\ auth' = [auth EXCEPT !.cachedUser = mapUser(call.uid)]
                 /\ authCalls' = [authCalls EXCEPT !.pending = @ \ {call},
                                                   !.signedIn = mapUser(call.uid)]
    /\ UNCHANGED <<page, runs, forms, savedVars, pureVars, viewVars, bannerVars, search>>

(* the .then of logoutUser *)
LogoutAnswered ==
    /\ \E call \in authCalls.pending, error \in BOOLEAN :
         /\ call.op = "logout"
         /\ IF error
            THEN /\ auth' = auth
                 /\ authCalls' = [authCalls EXCEPT !.pending = @ \ {call}]
            ELSE /\ auth' = [auth EXCEPT !.cachedUser = NullUser]
                 /\ authCalls' = [authCalls EXCEPT !.pending = @ \ {call},
                                                   !.signedIn = NullUser]
    /\ UNCHANGED <<page, runs, forms, savedVars, pureVars, viewVars, bannerVars, search>>

getCurrentUser == auth.cachedUser

AuthNext ==
    \/ AuthReady
    \/ AuthFailed
    \/ AuthStateChange
    \/ SignInCalled
    \/ LogoutCalled
    \/ SignInAnswered
    \/ LogoutAnswered

----------------------------------------------------------------------------
(* The error banner of the submission page (src/unnamed/part_007 130-145)   *)
(* as the submit handler drives it: hideError() when a submit event comes   *)
(* in (line 153), showError(message) in the catch block (line 283).  Time   *)
(* is counted in seconds; a setTimeout callback runs when it is due.        *)

MaxTime == 13

MaxErrors == 3

(* the delay of showError's setTimeout, in seconds *)
AutoHideDelay == 10

Banner(hidden, text, shownAt, hiddenBy, hiddenAt) ==
    [hidden |-> hidden, text |-> text, shownAt |-> shownAt,
     hiddenBy |-> hiddenBy, hiddenAt |-> hiddenAt]

(* errorContainer.classList.add('hidden'), by the submit handler or a timer *)
Hide(by) ==
    IF errorContainer.hidden THEN errorContainer
    ELSE [errorContainer EXCEPT !.hidden = TRUE, !.hiddenBy = by, !.hiddenAt = now]

hideError == Hide("submit")

(* showError(message): the text, the class, and a timer that is never cancelled *)
showError(message) ==
    /\ errorContainer' = Banner(FALSE, message, now, "none", 0)
    /\ timeouts' = timeouts \cup {now + AutoHideDelay}

BannerIdle ==
    /\ errorContainer = Banner(TRUE, 0, 0, "none", 0)
    /\ timeouts = {}
    /\ now = 0
    /\ busy = "off"

BannerStart ==
    /\ errorContainer = Banner(TRUE, 0, 0, "none", 0)
    /\ timeouts = {}
    /\ now = 0
    /\ busy = "idle"

(* a submit event: the handler starts with hideError() *)
SubmitEvent ==
    /\ busy = "idle"
    /\ errorContainer.text < MaxErrors
    /\ busy' = "running"
    /\ errorContainer' = hideError
    /\ UNCHANGED <<timeouts, now, notBannerVars>>

(* validation, geocoding or the insert throws: the catch block *)
SubmitThrows ==
    /\ busy = "running"
    /\ busy' = "idle"
    /\ showError(errorContainer.text + 1)
    /\ UNCHANGED <<now, notBannerVars>>

(* the insert succeeds: the form is hidden *)
SubmitSucceeds ==
    /\ busy = "running"
    /\ busy' = "done"
    /\ UNCHANGED <<errorContainer, timeouts, now, notBannerVars>>

(* the callback of a setTimeout of showError *)
TimeoutFires ==
    /\ busy # "off"
    /\ \E due \in timeouts :
        /\ due <= now
        /\ timeouts' = timeouts \ {due}
        /\ errorContainer' = Hide("timer")
    /\ UNCHANGED <<now, busy, notBannerVars>>

(* a second passes, once the callbacks that are due have run *)
Tick ==
    /\ busy # "off"
    /\ now < MaxTime
    /\ \A due \in timeouts : due > now
    /\ now' = now + 1
    /\ UNCHANGED <<errorContainer, timeouts, busy, notBannerVars>>

BannerNext ==
    \/ SubmitEvent
    \/ SubmitThrows
    \/ SubmitSucceeds
    \/ TimeoutFires
    \/ Tick

----------------------------------------------------------------------------
(* The character counter of the brief description (src/unnamed/part_007     *)
(* 23-38): the classes of #char-count after an input event, by the length   *)
(* of the text in the field.  The element has no other class; its class   *)
(* list is the sequence of its class names.                                  *)

MaxTyped == 220

charCountClasses(len) ==
    LET maxLength == 200
        minLength == 100
        removed == <<>>
    IN IF len < minLength THEN Append(removed, "error")
       ELSE IF len >= maxLength - 20 THEN Append(removed, "warning")
       ELSE removed

TypedLengths == 0..MaxTyped

PopUpInput == Call("charCount", charCountClasses(arg))

----------------------------------------------------------------------------
(* The validators called on their own (src/unnamed/part_000, validator.js). *)

(* Arguments of validateUrl: no text, blanks only, a value that is not a    *)
(* string, and texts of each kind at the lengths around the limit, with and *)
(* without blanks around them.                                               *)
UrlTexts ==
    {Text(0, 0, 0, "plain"), Text(1, 0, 0, "plain"), Text(1, 0, 1, "plain"),
     Text(0, 0, 0, "number")}
    \cup {Text(lead, n, trail, "plain") :
            lead \in {0, 1}, n \in {1, 5, 1992, 1993, 2000, 2001}, trail \in {0, 1}}
    \cup {Text(lead, n, trail, "http") :
            lead \in {0, 1}, n \in {9, 1999, 2000, 2001}, trail \in {0, 1}}
    \cup {Text(lead, n, trail, "js") :
            lead \in {0, 1}, n \in {11, 2000, 2001}, trail \in {0, 1}}
    \cup {Text(lead, n, trail, kind) :
            lead \in {0, 1}, n \in {10, 2000}, trail \in {0, 1}, kind \in {"html", "nul", "ftp"}}

ValidateUrlInputs == [url : UrlTexts, required : BOOLEAN]

ValidateUrl == Call("validateUrl", validateUrl(arg.url, arg.required))

(* A password is kept by its length and by which of the three regular       *)
(* expressions /[a-z]/, /[A-Z]/ and /[0-9]/ match it; `string` is FALSE for *)
(* a value that is not a string.                                             *)
Password(n, lower, upper, digit, string) ==
    [n |-> n, lower |-> lower, upper |-> upper, digit |-> digit, string |-> string]

NoPassword == Password(0, FALSE, FALSE, FALSE, TRUE)

Returns(value) == [ok |-> TRUE, value |-> value, message |-> ""]

ThrowsError(message) == [ok |-> FALSE, value |-> NoPassword, message |-> message]

M_validatePassword_minExclusive(password) ==
    IF ~password.string \/ password.n = 0 THEN ThrowsError("Password is required")
    ELSE IF password.n <= 8
         THEN ThrowsError("Password must be at least 8 characters long")
    ELSE IF password.n > 128
         THEN ThrowsError("Password is too long (maximum 128 characters)")
    ELSE IF ~password.lower
         THEN ThrowsError("Password must contain at least one lowercase letter")
    ELSE IF ~password.upper
         THEN ThrowsError("Password must contain at least one uppercase letter")
    ELSE IF ~password.digit
         THEN ThrowsError("Password must contain at least one number")
    ELSE Returns(password)

validatePassword(password) ==
    IF ~password.string \/ password.n = 0 THEN ThrowsError("Password is required")
    ELSE IF password.n < 8
         THEN ThrowsError("Password must be at least 8 characters long")
    ELSE IF password.n > 128
         THEN ThrowsError("Password is too long (maximum 128 characters)")
    ELSE IF ~password.lower
         THEN ThrowsError("Password must contain at least one lowercase letter")
    ELSE IF ~password.upper
         THEN ThrowsError("Password must contain at least one uppercase letter")
    ELSE IF ~password.digit
         THEN ThrowsError("Password must contain at least one number")
    ELSE Returns(password)

(* Arguments of validatePassword: every combination of the three character  *)
(* classes at the lengths around the two limits (a password holds at least  *)
(* one character of each class it has), and values that are not strings.    *)
Classes(p) ==
    (IF p.lower THEN 1 ELSE 0) + (IF p.upper THEN 1 ELSE 0) + (IF p.digit THEN 1 ELSE 0)

Passwords ==
    {p \in [n : {0, 1, 2, 3, 7, 8, 9, 64, 127, 128, 129},
            lower : BOOLEAN, upper : BOOLEAN, digit : BOOLEAN, string : {TRUE}] :
        Classes(p) <= p.n}
    \cup {Password(0, FALSE, FALSE, FALSE, FALSE), Password(12, TRUE, TRUE, TRUE, FALSE)}

ValidatePassword == Call("validatePassword", validatePassword(arg))

----------------------------------------------------------------------------
(* The CSV converter (src/src/listPage.js 560-800, scripts/csv-to-places.js). *)

MaxCsvLen == 5

RECURSIVE parseLoop(_, _, _, _, _, _)
(* the loop of parseCSV from index i (counted from 1) with its four locals *)
parseLoop(text, i, rows, current, value, insideQuotes) ==
    IF i > Len(text) THEN Append(rows, Append(current, value))
    ELSE LET char == text[i]
         IN IF insideQuotes
            THEN IF char = "\""
                 THEN IF i + 1 <= Len(text) /\ text[i + 1] = "\""
                      THEN parseLoop(text, i + 2, rows, current, Append(value, "\""), TRUE)
                      ELSE parseLoop(text, i + 1, rows, current, value, FALSE)
                 ELSE parseLoop(text, i + 1, rows, current, Append(value, char), TRUE)
            ELSE IF char = "\""
                 THEN parseLoop(text, i + 1, rows, current, value, TRUE)
            ELSE IF char = ","
                 THEN parseLoop(text, i + 1, rows, Append(current, value), <<>>, FALSE)
            ELSE IF char = "\n"
                 THEN parseLoop(text, i + 1, Append(rows, Append(current, value)),
                                <<>>, <<>>, FALSE)
            ELSE IF char = "\r"
                 THEN parseLoop(text, i + 1, rows, current, value, FALSE)
            ELSE parseLoop(text, i + 1, rows, current, Append(value, char), FALSE)

RECURSIVE M_parseLoop_quoteAlwaysCloses(_, _, _, _, _, _)
M_parseLoop_quoteAlwaysCloses(text, i, rows, current, value, insideQuotes) ==
    IF i > Len(text) THEN Append(rows, Append(current, value))
    ELSE LET char == text[i]
             next(r, c, v, q) == M_parseLoop_quoteAlwaysCloses(text, i + 1, r, c, v, q)
         IN IF insideQuotes
            THEN IF char = "\"" THEN next(rows, current, value, FALSE)
                 ELSE next(rows, current, Append(value, char), TRUE)
            ELSE IF char = "\"" THEN next(rows, current, value, TRUE)
            ELSE IF char = "," THEN next(rows, Append(current, value), <<>>, FALSE)
            ELSE IF char = "\n"
                 THEN next(Append(rows, Append(current, value)), <<>>, <<>>, FALSE)
            ELSE IF char = "\r" THEN next(rows, current, value, FALSE)
            ELSE next(rows, current, Append(value, char), FALSE)

M_parseCSV_quoteAlwaysCloses(text) == M_parseLoop_quoteAlwaysCloses(text, 1, <<>>, <<>>, <<>>, FALSE)

parseCSV(text) == parseLoop(text, 1, <<>>, <<>>, <<>>, FALSE)

(* CSV texts: every short text over a letter, the comma, the double quote,  *)
(* the newline and the carriage return                                       *)
CsvChars == {"a", ",", "\"", "\n", "\r"}

CsvTexts == Strings(CsvChars, MaxCsvLen)

ParseCSV == Call("parseCSV", parseCSV(arg))

(* normaliseRecord and what it calls.  A record is one CSV row by column    *)
(* name; a cell is a string ('' when the row has no such column).  Of the   *)
(* result the name, the id, the tags and the photos are kept, with the keys *)
(* of the latter two that the result has.                                    *)

MaxNameLen == 3

MaxListLen == 4

MaxRows == 2

DecimalDigits == <<"0", "1", "2", "3", "4", "5", "6", "7", "8", "9">>

RECURSIVE toString(_)
(* a number in a template literal *)
toString(n) ==
    IF n < 10 THEN <<DecimalDigits[n + 1]>>
    ELSE toString(n \div 10) \o <<DecimalDigits[(n % 10) + 1]>>

(* [a-z0-9] *)
IsSlugChar(c) ==
    \/ \E i \in 1..Len(LowerCase) : LowerCase[i] = c
    \/ \E i \in 1..Len(DecimalDigits) : DecimalDigits[i] = c

RECURSIVE DropOthers(_)
DropOthers(s) ==
    IF s = <<>> \/ IsSlugChar(Head(s)) THEN s ELSE DropOthers(Tail(s))

RECURSIVE ReplaceOthers(_)
(* .replace(/[^a-z0-9]+/g, "_") *)
ReplaceOthers(s) ==
    IF s = <<>> THEN s
    ELSE IF IsSlugChar(Head(s)) THEN <<Head(s)>> \o ReplaceOthers(Tail(s))
    ELSE <<"_">> \o ReplaceOthers(DropOthers(s))

RECURSIVE StripStart(_)
StripStart(s) == IF s # <<>> /\ Head(s) = "_" THEN StripStart(Tail(s)) ELSE s

RECURSIVE StripEnd(_)
StripEnd(s) ==
    IF s # <<>> /\ s[Len(s)] = "_" THEN StripEnd(SubSeq(s, 1, Len(s) - 1)) ELSE s

(* .slice(0, end) *)
slice(s, end) == SubSeq(s, 1, IF Len(s) < end THEN Len(s) ELSE end)

slugify(input) ==
    IF input = <<>> THEN <<>>
    ELSE slice(StripEnd(StripStart(ReplaceOthers(toLowerCase(input)))), 60)

RECURSIVE split(_, _)
(* String.prototype.split with a one-character separator *)
split(str, separator) ==
    IF ~Includes(str, separator) THEN <<str>>
    ELSE LET k == CHOOSE i \in 1..Len(str) :
                      str[i] = separator /\ \A j \in 1..(i - 1) : str[j] # separator
         IN <<SubSeq(str, 1, k - 1)>> \o split(SubSeq(str, k + 1, Len(str)), separator)

M_splitList_untrimmedItems(rawValue) ==
    LET str == Trim(rawValue)
        separator == IF Includes(str, "|") THEN "|" ELSE ","
    IN IF rawValue = <<>> THEN <<>>
       ELSE IF str = <<>> THEN <<>>
       ELSE SelectSeq(split(str, separator), LAMBDA item : item # <<>>)

splitList(rawValue) ==
    LET str == Trim(rawValue)
        separator == IF Includes(str, "|") THEN "|" ELSE ","
        items == split(str, separator)
        trimmedItems == [i \in 1..Len(items) |-> Trim(items[i])]
    IN IF rawValue = <<>> THEN <<>>
       ELSE IF str = <<>> THEN <<>>
       ELSE SelectSeq(trimmedItems, LAMBDA item : item # <<>>)

Record(name, id, tags, photos) == [name |-> name, id |-> id, tags |-> tags, photos |-> photos]

(* the result: null, or the object with the keys it has *)
NullResult == [null |-> TRUE, name |-> <<>>, id |-> <<>>, keys |-> {}, tags |-> <<>>, photos |-> <<>>]

M_normaliseRecord_slugFirst(record, rowNumber) ==
    LET name == Trim(record.name)
        id == IF slugify(name) # <<>> THEN slugify(name)
              ELSE IF Trim(record.id) # <<>> THEN Trim(record.id)
              ELSE <<"r", "o", "w", "_">> \o toString(rowNumber)
        tags == splitList(record.tags)
        photos == splitList(record.photos)
    IN IF name = <<>> THEN NullResult
       ELSE [null |-> FALSE, name |-> name, id |-> id,
             keys |-> {"name", "id"} \cup (IF Len(tags) # 0 THEN {"tags"} ELSE {})
                                     \cup (IF Len(photos) # 0 THEN {"photos"} ELSE {}),
             tags |-> tags, photos |-> photos]

normaliseRecord(record, rowNumber) ==
    LET name == Trim(record.name)
        id == IF Trim(record.id) # <<>> THEN Trim(record.id)
              ELSE IF slugify(name) # <<>> THEN slugify(name)
              ELSE <<"r", "o", "w", "_">> \o toString(rowNumber)
        tags == splitList(record.tags)
        photos == splitList(record.photos)
    IN IF name = <<>> THEN NullResult
       ELSE [null |-> FALSE, name |-> name, id |-> id,
             keys |-> {"name", "id"} \cup (IF Len(tags) # 0 THEN {"tags"} ELSE {})
                                     \cup (IF Len(photos) # 0 THEN {"photos"} ELSE {}),
             tags |-> tags, photos |-> photos]

(* Rows for the id: every short name over an upper-case letter, a lower-case *)
(* letter, a digit, a blank and a hyphen; an id column that is empty, blank *)
(* or holds an id between blanks; the first rows of the file.               *)
IdRows ==
    [record : {Record(name, id, <<>>, <<>>) :
                    name \in Strings({"A", "b", "1", " ", "-"}, MaxNameLen),
                    id \in {<<>>, <<" ">>, <<"x">>, <<" ", "x", " ">>}},
     rowNumber : 1..MaxRows]

(* Rows for the lists: every short tags cell over a letter, a blank, a pipe *)
(* and a comma; a photos cell that is empty or holds two entries.           *)
ListRows ==
    [record : {Record(<<"A">>, <<>>, tags, photos) :
                    tags \in Strings({"t", " ", "|", ","}, MaxListLen),
                    photos \in {<<>>, <<"p", ",", "q">>}},
     rowNumber : {1}]

NormaliseRecord == Call("normaliseRecord", normaliseRecord(arg.record, arg.rowNumber))

----------------------------------------------------------------------------
(* The search page (src/unnamed/part_005).  Every change of the query or of  *)
(* the tags sends one request; the client library is not in src/, so the     *)
(* requests still open are answered in any order, each with the rows of the  *)
(* text it was sent with, or with an error.  A text is a string of           *)
(* characters, a tag of a place a string as stored, a selected tag its       *)
(* normalised form.                                                          *)

MaxSearches == 3

(* the rows of the places table, ordered by name *)
SearchPlaces ==
    << [id |-> 1, name |-> <<"a">>,      tags |-> << <<"T">> >>],
       [id |-> 2, name |-> <<"a", "b">>, tags |-> << <<" ", "u">> >>],
       [id |-> 3, name |-> <<"b">>,      tags |-> << >>] >>

(* the texts typed into the search box *)
SearchTexts == { <<>>, <<" ">>, <<"a">>, <<"a", "b">>, <<"b">> }

normalizeTag(tag) == toLowerCase(Trim(tag))

matchesTags(place, selectedTags) ==
    IF selectedTags = {} THEN TRUE
    ELSE \E i \in 1..Len(place.tags) : normalizeTag(place.tags[i]) \in selectedTags

(* Array.prototype.filter, keeping the order *)
RECURSIVE FilterPlaces(_, _)
FilterPlaces(rows, selectedTags) ==
    IF rows = <<>> THEN <<>>
    ELSE IF matchesTags(Head(rows), selectedTags)
         THEN <<Head(rows)>> \o FilterPlaces(Tail(rows), selectedTags)
         ELSE FilterPlaces(Tail(rows), selectedTags)

(* the text a request carries: the trimmed query, <<>> when no textSearch    *)
(* is added                                                                  *)
RequestText(currentQuery) ==
    IF currentQuery # <<>> /\ Trim(currentQuery) # <<>> THEN Trim(currentQuery) ELSE <<>>

(* the answer of the table to a request: every row without a text, and with  *)
(* one the rows whose name starts with it (the full-text index itself is     *)
(* outside src/; all that matters here is that the answer is a function of   *)
(* the text and differs between texts)                                       *)
RECURSIVE RowsOf(_, _)
RowsOf(rows, text) ==
    IF rows = <<>> THEN <<>>
    ELSE IF Len(Head(rows).name) >= Len(text)
            /\ SubSeq(Head(rows).name, 1, Len(text)) = text
         THEN <<Head(rows)>> \o RowsOf(Tail(rows), text)
         ELSE RowsOf(Tail(rows), text)

(* what renderResults leaves on the page: the summary and one card per place *)
renderResults(filtered) ==
    [shown   |-> TRUE,
     summary |-> IF Len(filtered) = 0
                 THEN <<"No places match yet. Try another keyword or tag.">>
                 ELSE <<Len(filtered),
                        IF Len(filtered) # 1 THEN "places" ELSE "place",
                        "match your search.">>,
     cards   |-> filtered]

NothingRendered == [shown |-> FALSE, summary |-> <<>>, cards |-> <<>>]

(* updateResults up to its await: the request leaves with the query as it is *)
updateResults(s) ==
    [s EXCEPT !.requests = @ \cup {[id |-> s.sent + 1, text |-> RequestText(s.currentQuery)]},
              !.sent = @ + 1]

SearchIdle ==
    search = [loading |-> FALSE, currentQuery |-> <<>>, selectedTags |-> {},
              requests |-> {}, sent |-> 0, failed |-> FALSE,
              rendered |-> NothingRendered]

(* the page as loaded: loadPlaces() has been called and waits *)
SearchStart ==
    search = [loading |-> TRUE, currentQuery |-> <<>>, selectedTags |-> {},
              requests |-> {}, sent |-> 0, failed |-> FALSE,
              rendered |-> NothingRendered]

(* loadPlaces after its await *)
PlacesAnswered ==
    /\ search.loading
    /\ \E error \in BOOLEAN :
         IF error
         THEN search' = [search EXCEPT !.loading = FALSE, !.failed = TRUE]
         ELSE /\ search.sent < MaxSearches
              /\ search' = updateResults([search EXCEPT !.loading = FALSE])
    /\ UNCHANGED <<savedVars, pureVars, viewVars, submitVars, bannerVars, authCalls>>

(* the input listener of the search box *)
SearchInput ==
    /\ search.sent < MaxSearches
    /\ \E value \in SearchTexts :
         search' = updateResults([search EXCEPT !.currentQuery = value])
    /\ UNCHANGED <<savedVars, pureVars, viewVars, submitVars, bannerVars, authCalls>>

(* the keydown listener, Enter *)
SearchEnter ==
    /\ search.sent < MaxSearches
    /\ search' = updateResults(search)
    /\ UNCHANGED <<savedVars, pureVars, viewVars, submitVars, bannerVars, authCalls>>

(* the clear button *)
SearchClear ==
    /\ search.sent < MaxSearches
    /\ search' = updateResults([search EXCEPT !.currentQuery = <<>>, !.selectedTags = {}])
    /\ UNCHANGED <<savedVars, pureVars, viewVars, submitVars, bannerVars, authCalls>>

(* a click on the badge of a tag on a rendered card *)
BadgeClick ==
    /\ search.sent < MaxSearches
    /\ \E c \in 1..Len(search.rendered.cards) :
         \E t \in 1..Len(search.rendered.cards[c].tags) :
           LET normalizedTag == normalizeTag(search.rendered.cards[c].tags[t]) IN
             /\ normalizedTag # <<>>
             /\ search' = updateResults([search EXCEPT
                              !.currentQuery = <<>>,
                              !.selectedTags = @ \cup {normalizedTag}])
    /\ UNCHANGED <<savedVars, pureVars, viewVars, submitVars, bannerVars, authCalls>>

(* updateResults after its await, for any request still open *)
SearchAnswered ==
    /\ \E r \in search.requests : \E error \in BOOLEAN :
         IF error
         THEN search' = [search EXCEPT !.requests = @ \ {r}, !.failed = TRUE]
         ELSE search' = [search EXCEPT
                            !.requests = @ \ {r},
                            !.rendered = renderResults(
                                FilterPlaces(RowsOf(SearchPlaces, r.text),
                                             search.selectedTags))]
    /\ UNCHANGED <<savedVars, pureVars, viewVars, submitVars, bannerVars, authCalls>>

SearchNext ==
    \/ PlacesAnswered
    \/ SearchInput
    \/ SearchEnter
    \/ SearchClear
    \/ BadgeClick
    \/ SearchAnswered

----------------------------------------------------------------------------
(* Specifications: each part of the front end runs with the others idle.    *)

(* one browser, one account: the signed-in user or null calls *)
SavedInit == SavedStart({"ann@x", NoEmail}, MaxOps) /\ PureIdle /\ ViewIdle /\ SubmitIdle /\ BannerIdle /\ AuthCallsIdle /\ SearchIdle

(* one browser, two accounts *)
UsersInit == SavedStart(Callers, MaxUserOps) /\ PureIdle /\ ViewIdle /\ SubmitIdle /\ BannerIdle /\ AuthCallsIdle /\ SearchIdle

SpecSaved == SavedInit /\ [][SavedNext]_vars

SpecUsers == UsersInit /\ [][SavedNext]_vars

EscapeHtmlInit == PureStart(HtmlInputs) /\ SavedIdle /\ ViewIdle /\ SubmitIdle /\ BannerIdle /\ AuthCallsIdle /\ SearchIdle

SpecEscapeHtml == EscapeHtmlInit /\ [][EscapeHtml]_vars

SanitizeUrlInit == PureStart(UrlInputs) /\ SavedIdle /\ ViewIdle /\ SubmitIdle /\ BannerIdle /\ AuthCallsIdle /\ SearchIdle

SpecSanitizeUrl == SanitizeUrlInit /\ [][SanitizeUrl]_vars

ValidateUrlInit == PureStart(ValidateUrlInputs) /\ SavedIdle /\ ViewIdle /\ SubmitIdle /\ BannerIdle /\ AuthCallsIdle /\ SearchIdle

(* the description field after an input event, over every length typed *)
CharCountInit == PureStart(TypedLengths) /\ SavedIdle /\ ViewIdle /\ SubmitIdle /\ BannerIdle /\ AuthCallsIdle /\ SearchIdle

SpecCharCount == CharCountInit /\ [][PopUpInput]_vars

StripHtmlTagsInit == PureStart(TagInputs) /\ SavedIdle /\ ViewIdle /\ SubmitIdle /\ BannerIdle /\ AuthCallsIdle /\ SearchIdle

SpecStripHtmlTags == StripHtmlTagsInit /\ [][StripHtmlTags]_vars

PhotoArrayInit == PureStart(PhotoInputs) /\ SavedIdle /\ ViewIdle /\ SubmitIdle /\ BannerIdle /\ AuthCallsIdle /\ SearchIdle

SpecPhotoArray == PhotoArrayInit /\ [][SanitizePhotoArray]_vars

SpecValidateUrl == ValidateUrlInit /\ [][ValidateUrl]_vars

ParseCSVInit == PureStart(CsvTexts) /\ SavedIdle /\ ViewIdle /\ SubmitIdle /\ BannerIdle /\ AuthCallsIdle /\ SearchIdle

SpecParseCSV == ParseCSVInit /\ [][ParseCSV]_vars

RecordIdInit == PureStart(IdRows) /\ SavedIdle /\ ViewIdle /\ SubmitIdle /\ BannerIdle /\ AuthCallsIdle /\ SearchIdle

SpecRecordId == RecordIdInit /\ [][NormaliseRecord]_vars

RecordListsInit == PureStart(ListRows) /\ SavedIdle /\ ViewIdle /\ SubmitIdle /\ BannerIdle /\ AuthCallsIdle /\ SearchIdle

SpecRecordLists == RecordListsInit /\ [][NormaliseRecord]_vars

ValidatePasswordInit == PureStart(Passwords) /\ SavedIdle /\ ViewIdle /\ SubmitIdle /\ BannerIdle /\ AuthCallsIdle /\ SearchIdle

SpecValidatePassword == ValidatePasswordInit /\ [][ValidatePassword]_vars

ViewsInit == ViewsStart /\ SavedIdle /\ PureIdle /\ SubmitIdle /\ BannerIdle /\ AuthCallsIdle /\ SearchIdle

SpecViews == ViewsInit /\ [][ViewsNext]_vars

(* the submission page with overlapping submissions *)
SubmitInit ==
    /\ SubmitStart({ValidForm, [ValidForm EXCEPT !.category = NullText]}, MaxRuns)
    /\ SavedIdle /\ PureIdle /\ ViewIdle /\ BannerIdle /\ AuthCallsIdle /\ SearchIdle

SpecSubmit == SubmitInit /\ [][SubmitNext]_vars

(* the submission page, one submission, over every form *)
FormInit ==
    /\ SubmitStart(FormsAtLimits \cup InvalidForms, 1)
    /\ SavedIdle /\ PureIdle /\ ViewIdle /\ BannerIdle /\ AuthCallsIdle /\ SearchIdle

SpecForm == FormInit /\ [][SubmitNext]_vars

(* the error banner over failing submissions and time *)
ErrorBannerInit == BannerStart /\ SavedIdle /\ PureIdle /\ ViewIdle /\ SubmitIdle /\ AuthCallsIdle /\ SearchIdle

SpecErrorBanner == ErrorBannerInit /\ [][BannerNext]_vars

(* the remote-auth module from its load, with sign-ins and sign-outs *)
AuthInit ==
    /\ SubmitStart({}, 0) /\ AuthCallsIdle /\ SearchIdle
    /\ SavedIdle /\ PureIdle /\ ViewIdle /\ BannerIdle

SpecAuth == AuthInit /\ [][AuthNext]_vars

(* the search page from its load *)
SearchInit ==
    /\ SearchStart /\ AuthCallsIdle
    /\ SavedIdle /\ PureIdle /\ ViewIdle /\ SubmitIdle /\ BannerIdle

SpecSearch == SearchInit /\ [][SearchNext]_vars

----------------------------------------------------------------------------
(* What the pages read back, in either implementation *)

ItemsL(ls, e) == L_getSavedPlaceIds(ls, LocalUser(e)).out.val

ItemsR(ls, e) == R_getSavedPlaceIds(ls, RemoteUser(e)).out.val

ColsL(ls, e) == L_getCollections(ls, LocalUser(e)).out.val

ColsR(ls, e) == R_getCollections(ls, RemoteUser(e)).out.val

(* every member of every collection of cols is in items *)
Within(cols, items) ==
    \A i \in 1..Len(cols) :
        \A j \in 1..Len(cols[i].placeIds) : Includes(items, cols[i].placeIds[j])

(* cols with target taken out of every collection, nothing else touched *)
ColsWithout(cols, target) ==
    [i \in 1..Len(cols) |->
        [id |-> cols[i].id, name |-> cols[i].name,
         placeIds |-> SelectSeq(cols[i].placeIds, LAMBDA x : x # target)]]

SomeMember(cols) == \E i \in 1..Len(cols) : cols[i].placeIds # <<>>

(* the stored entry under email e, <<>> when there is none *)
EntryOf(ls, e) ==
    IF ls = <<>> THEN <<>>
    ELSE IF e \in DOMAIN ls[1] THEN <<ls[1][e]>> ELSE <<>>

(* C1: starting from an empty store, after any sequence of calls every        *)
(* collection's placeIds are among the user's flat list of saved place ids,   *)
(* in both implementations.                                                   *)
C1_CollectionsWithinSaved ==
    \A e \in Emails :
        /\ Within(ColsL(lsL, e), ItemsL(lsL, e))
        /\ Within(ColsR(lsR, e), ItemsR(lsR, e))

(* a saved place was just removed while a collection still has a member *)
C1_Witness ==
    /\ last.op = "removeSavedPlace"
    /\ last.hit
    /\ SomeMember(ColsL(lsL, last.email))
    /\ Len(ItemsL(lsL, last.email)) >= 1

(* C2: removeSavedPlace(user, p) takes p out of the flat list and out of      *)
(* every collection of the user, and leaves every other saved id, every other *)
(* collection member, and the collections and their names as they were.       *)
C2_RemoveSavedPlaceFrame ==
    [][(last'.op = "removeSavedPlace" /\ last'.email # NoEmail) =>
        LET e == last'.email
            target == String(last'.pid)
        IN /\ ItemsL(lsL', e) = SelectSeq(ItemsL(lsL, e), LAMBDA x : x # target)
           /\ ColsL(lsL', e) = ColsWithout(ColsL(lsL, e), target)
           /\ ItemsR(lsR', e) = SelectSeq(ItemsR(lsR, e), LAMBDA x : x # target)
           /\ ColsR(lsR', e) = ColsWithout(ColsR(lsR, e), target)
           /\ ~Includes(ItemsL(lsL', e), target)
           /\ ~Includes(ItemsR(lsR', e), target)
           /\ \A i \in 1..Len(ColsL(lsL', e)) :
                 ~Includes(ColsL(lsL', e)[i].placeIds, target)
           /\ \A i \in 1..Len(ColsR(lsR', e)) :
                 ~Includes(ColsR(lsR', e)[i].placeIds, target)
           /\ outL'.val = ItemsL(lsL', e)]_vars

(* a place was removed, and another saved place and a collection holding it   *)
(* are still there                                                            *)
C2_Witness ==
    /\ last.op = "removeSavedPlace"
    /\ last.hit
    /\ ~Includes(ItemsL(lsL, last.email), String(last.pid))
    /\ Len(ItemsL(lsL, last.email)) = 1
    /\ Len(ColsL(lsL, last.email)) = 1
    /\ ColsL(lsL, last.email)[1].placeIds = ItemsL(lsL, last.email)

(* C3: on the same calls, with the same user email and the same generated     *)
(* collection ids, both implementations leave the same stored text, return    *)
(* the same values (or throw the same error) and dispatch the same            *)
(* saved-change events; and every read gives the same answer in both.         *)
C3_SameInBoth ==
    /\ lsL = lsR
    /\ outL = outR
    /\ \A e \in Callers :
        /\ L_getSavedPlaceIds(lsL, UserL(e)).out = R_getSavedPlaceIds(lsR, UserR(e)).out
        /\ L_getCollections(lsL, UserL(e)).out = R_getCollections(lsR, UserR(e)).out
        /\ \A p \in PlaceArgs :
             L_isPlaceSaved(lsL, UserL(e), p).out = R_isPlaceSaved(lsR, UserR(e), p).out
        /\ \A c \in ColIds :
             /\ L_getCollectionPlaceIds(lsL, UserL(e), c).out
                  = R_getCollectionPlaceIds(lsR, UserR(e), c).out
             /\ \A p \in PlaceArgs :
                  L_isPlaceInCollection(lsL, UserL(e), c, p).out
                    = R_isPlaceInCollection(lsR, UserR(e), c, p).out

(* a place was just put in a collection, with an event, in both *)
C3_Witness ==
    /\ last.op = "addPlaceToCollection"
    /\ outL.kind = "collection"
    /\ outR.events = <<[type |-> "seamline:saved-change", email |-> last.email]>>
    /\ Len(outR.val.placeIds) = 2
    /\ lsR # <<>>

(* C4: a mutating call for one user changes only the entry stored under that  *)
(* user's email; what getSavedPlaceIds and getCollections give for any other  *)
(* email is as before.                                                        *)
C4_KeyedByEmail ==
    [][(last'.op \in Mutators) =>
        \A f \in Emails \ {last'.email} :
            /\ EntryOf(lsL', f) = EntryOf(lsL, f)
            /\ EntryOf(lsR', f) = EntryOf(lsR, f)
            /\ ItemsL(lsL', f) = ItemsL(lsL, f)
            /\ ColsL(lsL', f) = ColsL(lsL, f)
            /\ ItemsR(lsR', f) = ItemsR(lsR, f)
            /\ ColsR(lsR', f) = ColsR(lsR, f)]_vars

(* bob just changed his entry while ann has a saved place in a collection *)
C4_Witness ==
    /\ last.op \in Mutators
    /\ last.email = "bob@x"
    /\ outL.events # <<>>
    /\ SomeMember(ColsL(lsL, "ann@x"))
    /\ EntryOf(lsL, "bob@x") # <<>>

(* C5: deleteCollection(user, id) leaves the flat saved list as it was and    *)
(* every other collection (id, name, placeIds) as it was; only the collection *)
(* with that id is gone.                                                      *)
C5_DeleteCollectionFrame ==
    [][(last'.op = "deleteCollection" /\ last'.email # NoEmail) =>
        LET e == last'.email
            gone == last'.cid
        IN /\ ItemsL(lsL', e) = ItemsL(lsL, e)
           /\ ColsL(lsL', e) = SelectSeq(ColsL(lsL, e), LAMBDA c : c.id # gone)
           /\ ItemsR(lsR', e) = ItemsR(lsR, e)
           /\ ColsR(lsR', e) = SelectSeq(ColsR(lsR, e), LAMBDA c : c.id # gone)
           /\ \A i \in 1..Len(ColsL(lsL', e)) : ColsL(lsL', e)[i].id # gone]_vars

(* a collection was deleted; a saved place and another collection remain *)
C5_Witness ==
    /\ last.op = "deleteCollection"
    /\ last.hit
    /\ ItemsL(lsL, last.email) # <<>>
    /\ Len(ColsL(lsL, last.email)) = 1
    /\ ColsL(lsL, last.email)[1].id # last.cid

----------------------------------------------------------------------------
(* The sanitizer's claims *)

(* s lower-cased begins with the lower-case text p *)
BeginsWith(s, p) ==
    /\ Len(s) >= Len(p)
    /\ [i \in 1..Len(p) |-> ToLower(s[i])] = p

BeginsWithOneOf(s, words) == \E w \in words : BeginsWith(s, Append(w, ":"))

(* C9, as amended: sanitizeUrl returns '' for an empty or absent argument;   *)
(* otherwise '' when the trimmed argument begins, in any case, with          *)
(* javascript:, data:, vbscript:, file: or about:, the trimmed argument      *)
(* itself when it begins with http:, https:, mailto:, tel: or sms:, and the  *)
(* trimmed argument prefixed with https:// in every other case; a non-empty  *)
(* result always begins with one of the safe schemes.                        *)
C9_SanitizeUrl ==
    fn = "sanitizeUrl" =>
        /\ (arg.t # "string" \/ arg.s = <<>>) => res = <<>>
        /\ (arg.t = "string" /\ arg.s # <<>>) =>
              LET trimmed == Trim(arg.s)
              IN IF BeginsWithOneOf(trimmed, {<<"j", "a", "v", "a", "s", "c", "r", "i", "p", "t">>, <<"d", "a", "t", "a">>, <<"v", "b", "s", "c", "r", "i", "p", "t">>, <<"f", "i", "l", "e">>, <<"a", "b", "o", "u", "t">>})
                 THEN res = <<>>
                 ELSE IF BeginsWithOneOf(trimmed, {<<"h", "t", "t", "p">>, <<"h", "t", "t", "p", "s">>, <<"m", "a", "i", "l", "t", "o">>, <<"t", "e", "l">>, <<"s", "m", "s">>})
                 THEN res = trimmed
                 ELSE res = <<"h", "t", "t", "p", "s", ":", "/", "/">> \o trimmed
        /\ res # <<>> => BeginsWithOneOf(res, {<<"h", "t", "t", "p">>, <<"h", "t", "t", "p", "s">>, <<"m", "a", "i", "l", "t", "o">>, <<"t", "e", "l">>, <<"s", "m", "s">>})

(* a padded argument without a known scheme came back trimmed and prefixed *)
C9_Witness ==
    /\ fn = "sanitizeUrl"
    /\ arg.t = "string"
    /\ Trim(arg.s) # arg.s
    /\ Trim(arg.s) # <<>>
    /\ res = <<"h", "t", "t", "p", "s", ":", "/", "/">> \o Trim(arg.s)

(* C9, as stated: for every argument sanitizeUrl returns '' when the trimmed *)
(* argument begins with a dangerous scheme, the trimmed argument when it     *)
(* begins with a safe one, and otherwise the argument prefixed with https:// *)
(* (the argument as given or trimmed: either reading is accepted here); a    *)
(* non-empty result begins with a safe scheme.                               *)
C9_AsStated ==
    (fn = "sanitizeUrl" /\ arg.t = "string") =>
        /\ LET trimmed == Trim(arg.s)
           IN IF BeginsWithOneOf(trimmed, {<<"j", "a", "v", "a", "s", "c", "r", "i", "p", "t">>, <<"d", "a", "t", "a">>, <<"v", "b", "s", "c", "r", "i", "p", "t">>, <<"f", "i", "l", "e">>, <<"a", "b", "o", "u", "t">>})
              THEN res = <<>>
              ELSE IF BeginsWithOneOf(trimmed, {<<"h", "t", "t", "p">>, <<"h", "t", "t", "p", "s">>, <<"m", "a", "i", "l", "t", "o">>, <<"t", "e", "l">>, <<"s", "m", "s">>})
              THEN res = trimmed
              ELSE \/ res = <<"h", "t", "t", "p", "s", ":", "/", "/">> \o arg.s
                   \/ res = <<"h", "t", "t", "p", "s", ":", "/", "/">> \o trimmed
        /\ res # <<>> => BeginsWithOneOf(res, {<<"h", "t", "t", "p">>, <<"h", "t", "t", "p", "s">>, <<"m", "a", "i", "l", "t", "o">>, <<"t", "e", "l">>, <<"s", "m", "s">>})

Entities == {<<"&", "a", "m", "p", ";">>, <<"&", "l", "t", ";">>, <<"&", "g", "t", ";">>, <<"&", "q", "u", "o", "t", ";">>, <<"&", "#", "0", "3", "9", ";">>, <<"&", "#", "x", "2", "F", ";">>}

(* an entity starts at position i of s *)
EntityAt(s, i) ==
    \E e \in Entities : i + Len(e) - 1 <= Len(s) /\ SubSeq(s, i, i + Len(e) - 1) = e

EntityOf(c) ==
    CASE c = "&" -> <<"&", "a", "m", "p", ";">>
      [] c = "<" -> <<"&", "l", "t", ";">>
      [] c = ">" -> <<"&", "g", "t", ";">>
      [] c = "\"" -> <<"&", "q", "u", "o", "t", ";">>
      [] c = "'" -> <<"&", "#", "0", "3", "9", ";">>
      [] c = "/" -> <<"&", "#", "x", "2", "F", ";">>
      [] OTHER -> <<c>>

(* s with each character replaced by its entity, once *)
RECURSIVE EscapedOnce(_)
EscapedOnce(s) == IF s = <<>> THEN <<>> ELSE EntityOf(Head(s)) \o EscapedOnce(Tail(s))

----------------------------------------------------------------------------
(* The claim about online-only places *)

(* the place's type is "online", trimmed and in any case *)
TypeOnline(p) == p.type.t = "string" /\ toLowerCase(Trim(p.type.s)) = <<"o", "n", "l", "i", "n", "e">>

(* every place of ps whose type is online is in qs *)
OnlineAmong(ps, qs) == \A i \in 1..Len(ps) : TypeOnline(ps[i]) => Includes(qs, ps[i])

IsOnlineEntry(category) == toLowerCase(category) = <<"o", "n", "l", "i", "n", "e">>

(* C8: a place whose type is "online" never has a map marker, whatever the   *)
(* filter selected on the map page; filterPlacesByCategory(places, "Online") *)
(* holds every such place, and so does the list shown under the list page's  *)
(* Online button; the list page has an Online button whenever the places     *)
(* fetched hold such a place.                                                *)
C8_OnlineOnlyInList ==
    /\ view.page = "home" => \A i \in 1..Len(view.shown) : ~TypeOnline(view.shown[i])
    /\ OnlineAmong(places, filterPlacesByCategory(places, <<"O", "n", "l", "i", "n", "e">>))
    /\ (view.page = "list" /\ view.loaded /\ view.all = places) =>
          /\ (\E i \in 1..Len(places) : TypeOnline(places[i])) =>
                \E i \in 1..Len(view.categories) : IsOnlineEntry(view.categories[i])
          /\ IsOnlineEntry(view.selected) => OnlineAmong(places, view.shown)

(* a category was selected on the map page: the marker shown is of a shop of *)
(* that category, while an online place of the same category has none       *)
C8_Witness ==
    /\ view.page = "home"
    /\ view.selected = <<"F", "a", "b", "r", "i", "c", "s">>
    /\ Len(view.shown) = 1
    /\ Len(places) = 2
    /\ \E i \in 1..2 : /\ TypeOnline(places[i])
                       /\ places[i].coords
                       /\ places[i].category = Str(<<"F", "a", "b", "r", "i", "c", "s">>)

----------------------------------------------------------------------------
(* The claims about the submission page *)

IsPrefix(s, u) == Len(s) <= Len(u) /\ SubSeq(u, 1, Len(s)) = s

(* C6: an invocation of the submit handler sends an insert only if it found  *)
(* a signed-in user, and then only after its validations passed and the      *)
(* geocoder gave coordinates, in that order; the record sent has             *)
(* approved = false, slug = null and submitted_by = the id of the user the   *)
(* handler found.  An invocation that finds no user never sends an insert.   *)
C6_InsertOnlySignedInValidated ==
    \A r \in Slots :
        /\ runs[r].inserted # <<>> =>
              /\ ~runs[r].user.null
              /\ IsPrefix(<<"user", "validated", "geocoded", "insert">>, runs[r].trace)
              /\ runs[r].fields # <<>>
              /\ runs[r].inserted[1].hasCoords
              /\ runs[r].inserted[1].approved = FALSE
              /\ runs[r].inserted[1].slug = NullText
              /\ runs[r].inserted[1].submitted_by = runs[r].user.id
              /\ runs[r].inserted[1].submitted_by \in Uids
        /\ (runs[r].user.null \/ runs[r].pc \in {"idle", "awaitUser", "rejected", "aborted"})
              => runs[r].inserted = <<>>
        /\ "insert" \in {runs[r].trace[i] : i \in 1..Len(runs[r].trace)}
              <=> runs[r].inserted # <<>>

(* one submission was turned away for want of a user; after a sign-in the    *)
(* next one was validated, geocoded and inserted                             *)
C6_Witness ==
    /\ Len(runs) >= 2
    /\ runs[1].pc = "rejected"
    /\ runs[2].pc = "done"
    /\ runs[2].inserted # <<>>
    /\ runs[2].inserted[1].submitted_by = "u2"

(* the rule of the documentation's table for a field: at least min and at    *)
(* most max characters; an optional field may be null                        *)
WithinRule(x, min, max, optional) ==
    \/ optional /\ x = NullText
    \/ length(x) >= min /\ length(x) <= max

(* C7, as stated: every record inserted has a name of 2..200 characters, a   *)
(* non-empty category, an address of at least 5, a brief description of      *)
(* 100..200, a website of at most 2000, a phone of 7..20, opening hours of   *)
(* at most 1000, more info of at most 2000 and an average price of at most   *)
(* 100 characters.                                                           *)
C7_InsertedWithinRules ==
    \A r \in Slots :
        runs[r].inserted # <<>> =>
            LET rec == runs[r].inserted[1]
            IN /\ WithinRule(rec.name, 2, 200, FALSE)
               /\ length(rec.category) > 0
               /\ length(rec.address) >= 5
               /\ WithinRule(rec.pop_up, 100, 200, FALSE)
               /\ WithinRule(rec.website, 0, 2000, TRUE)
               /\ WithinRule(rec.phone, 7, 20, TRUE)
               /\ WithinRule(rec.opening_hours, 0, 1000, TRUE)
               /\ WithinRule(rec.more_info, 0, 2000, TRUE)
               /\ WithinRule(rec.average_price, 0, 100, TRUE)

----------------------------------------------------------------------------
(* validateUrl                                                               *)

(* the argument is empty, blanks only or not a string *)
NoUrl(url) == url.kind = "number" \/ url.n = 0

(* C11, as stated: validateUrl returns null for an empty, whitespace-only or *)
(* non-string input when the URL is not required and throws 'URL is          *)
(* required' when it is; for any other input it either throws or returns a   *)
(* URL of at most 2000 characters that begins with http:// or https://       *)
(* (https:// being added when no protocol was given), and never one with a   *)
(* javascript:, data:, vbscript:, file: or about: protocol.                  *)
C11_ValidateUrlAsStated ==
    fn = "validateUrl" =>
        IF NoUrl(arg.url)
        THEN res = (IF arg.required THEN Invalid("URL is required") ELSE Valid(NullText))
        ELSE res.ok =>
                /\ length(res.value) <= 2000
                /\ res.value.kind = "http"
                /\ trim(arg.url).kind # "http" => res.value.n = 8 + arg.url.n

----------------------------------------------------------------------------
(* validatePassword                                                          *)

(* the requirements in the order of the claim, each with whether the        *)
(* password meets it and the error that names it                            *)
Requirements(p) ==
    << <<p.string /\ p.n > 0, "Password is required">>,
       <<p.n >= 8, "Password must be at least 8 characters long">>,
       <<p.n <= 128, "Password is too long (maximum 128 characters)">>,
       <<p.lower, "Password must contain at least one lowercase letter">>,
       <<p.upper, "Password must contain at least one uppercase letter">>,
       <<p.digit, "Password must contain at least one number">> >>

FirstFailing(p) ==
    LET reqs == Requirements(p)
        i == CHOOSE k \in 1..Len(reqs) : ~reqs[k][1] /\ \A j \in 1..(k - 1) : reqs[j][1]
    IN reqs[i][2]

(* C12: validatePassword returns the password unchanged exactly when it is a *)
(* string of 8 to 128 characters with at least one lowercase letter, one     *)
(* uppercase letter and one digit; otherwise it throws, and the error names  *)
(* the first requirement that fails in the order required, minimum length,   *)
(* maximum length, lowercase, uppercase, number.                             *)
C12_ValidatePassword ==
    fn = "validatePassword" =>
        LET good == /\ arg.string
                    /\ arg.n >= 8 /\ arg.n <= 128
                    /\ arg.lower /\ arg.upper /\ arg.digit
        IN IF good THEN res = Returns(arg)
           ELSE ~res.ok /\ res.message = FirstFailing(arg)

(* a password of exactly 8 characters with all three classes is returned *)
C12_Witness ==
    /\ fn = "validatePassword"
    /\ arg.n = 8
    /\ res = Returns(arg)

----------------------------------------------------------------------------
(* the error banner                                                          *)

(* C13, as stated: every message shown by showError stays visible until 10  *)
(* seconds after that message was shown, unless a new submit attempt hides  *)
(* it first: a timer never hides a message earlier than that.               *)
C13_VisibleTenSeconds ==
    errorContainer.hiddenBy = "timer" =>
        errorContainer.hiddenAt >= errorContainer.shownAt + AutoHideDelay

----------------------------------------------------------------------------
(* the character counter                                                     *)

(* C14, as stated: the counter is red (class 'error') for every length      *)
(* below 100, yellow (class 'warning') for every length above 180, neutral  *)
(* (neither class) for every length from 100 to 180 inclusive, and never    *)
(* carries both classes.                                                     *)
C14_CounterColours ==
    fn = "charCount" =>
        /\ arg < 100 => res = <<"error">>
        /\ arg > 180 => res = <<"warning">>
        /\ (arg >= 100 /\ arg <= 180) => res = <<>>
        /\ ~(Includes(res, "error") /\ Includes(res, "warning"))

----------------------------------------------------------------------------
(* parseCSV                                                                  *)

QuotesBefore(text, i) == Cardinality({j \in 1..(i - 1) : text[j] = "\""})

(* position i lies between an opening and a closing double quote *)
BetweenQuotes(text, i) == QuotesBefore(text, i) % 2 = 1

(* the second quote of a doubled quote inside a quoted field *)
DoubledQuote(text, i) ==
    /\ text[i] = "\""
    /\ i > 1
    /\ text[i - 1] = "\""
    /\ BetweenQuotes(text, i - 1)

(* What the character at position i is, by the words of the claim: part of  *)
(* a field value, the end of a field ("FS"), the end of a row ("RS"), or    *)
(* dropped.                                                                  *)
Meaning(text, i) ==
    IF text[i] = "\"" THEN (IF DoubledQuote(text, i) THEN <<"\"">> ELSE <<>>)
    ELSE IF BetweenQuotes(text, i) THEN <<text[i]>>
    ELSE IF text[i] = "," THEN <<"FS">>
    ELSE IF text[i] = "\n" THEN <<"RS">>
    ELSE IF text[i] = "\r" THEN <<>>
    ELSE <<text[i]>>

RECURSIVE Meanings(_, _)
Meanings(text, i) ==
    IF i > Len(text) THEN <<>> ELSE Meaning(text, i) \o Meanings(text, i + 1)

RECURSIVE JoinWith(_, _)
(* the sequences of `parts` one after the other with `sep` between them *)
JoinWith(parts, sep) ==
    IF Len(parts) = 1 THEN parts[1]
    ELSE parts[1] \o <<sep>> \o JoinWith(Tail(parts), sep)

(* the rows parsed, written with an "FS" after every field but the last of  *)
(* a row and an "RS" after every row but the last                           *)
WrittenOut(rows) == JoinWith([r \in 1..Len(rows) |-> JoinWith(rows[r], "FS")], "RS")

(* C15: in parseCSV a comma or a newline between an opening and a closing   *)
(* double quote is part of the field value and starts neither a new field   *)
(* nor a new row, a doubled quote inside a quoted field yields one literal  *)
(* quote, and outside quotes a comma ends the field, a newline ends the row *)
(* and carriage returns are dropped.                                         *)
C15_ParseCSV ==
    fn = "parseCSV" =>
        /\ Len(res) >= 1
        /\ \A r \in 1..Len(res) : Len(res[r]) >= 1
        /\ WrittenOut(res) = Meanings(arg, 1)

(* the text ",""" in quotes: one field holding a comma and a quote *)
C15_Witness ==
    /\ fn = "parseCSV"
    /\ arg = <<"\"", ",", "\"", "\"", "\"">>
    /\ res = << << <<",", "\"">> >> >>

----------------------------------------------------------------------------
(* normaliseRecord: the id                                                   *)

Blank(s) == \A i \in 1..Len(s) : s[i] \in WS

(* s without the blanks around it, without Trim: the only piece of s that   *)
(* begins and ends with a non-blank and has only blanks around it           *)
Trimmed(s) ==
    IF Blank(s) THEN <<>>
    ELSE LET a == CHOOSE i \in 1..Len(s) : s[i] \notin WS /\ \A j \in 1..(i - 1) : s[j] \in WS
             b == CHOOSE i \in 1..Len(s) :
                      s[i] \notin WS /\ \A j \in (i + 1)..Len(s) : s[j] \in WS
         IN SubSeq(s, a, b)

(* C16: every record the converter outputs has a non-empty id that is the   *)
(* trimmed id column when that is non-empty, otherwise the slug of the      *)
(* name, otherwise row_<row number>; a row whose name is empty produces no  *)
(* record.                                                                   *)
C16_RecordId ==
    fn = "normaliseRecord" =>
        LET row == arg.record
            slug == slugify(Trimmed(row.name))
        IN /\ res.null <=> Blank(row.name)
           /\ ~res.null =>
                /\ res.id # <<>>
                /\ ~Blank(row.id) => res.id = Trimmed(row.id)
                /\ (Blank(row.id) /\ slug # <<>>) => res.id = slug
                /\ (Blank(row.id) /\ slug = <<>>) =>
                        res.id = <<"r", "o", "w", "_">> \o toString(arg.rowNumber)
                /\ (Blank(row.id) /\ slug # <<>>) =>
                        \A i \in 1..Len(res.id) : IsSlugChar(res.id[i]) \/ res.id[i] = "_"

(* the name "A-b" with a blank id column gets the id a_b *)
C16_Witness ==
    /\ fn = "normaliseRecord"
    /\ arg.record.name = <<"A", "-", "b">>
    /\ Blank(arg.record.id)
    /\ res.id = <<"a", "_", "b">>

----------------------------------------------------------------------------
(* stripHtmlTags                                                             *)

(* s has a substring of the form <...> *)
HasTag(s) == \E i \in 1..Len(s) : \E j \in (i + 1)..Len(s) : s[i] = "<" /\ s[j] = ">"

(* C17, as stated: the output of stripHtmlTags contains no substring of the *)
(* form <...>, and for the documented input                                 *)
(* '<b>Hello</b> <script>alert(1)</script>World' it is 'Hello World': the   *)
(* text enclosed by a script element is not left in the output.             *)
C17_StripHtmlTags ==
    fn = "stripHtmlTags" =>
        /\ ~HasTag(res)
        /\ arg = Str(DocumentedHtml) => res = DocumentedText

----------------------------------------------------------------------------
(* sanitizePhotoArray                                                        *)

(* a URL sanitizeUrl blocks: absent, empty, or with a dangerous scheme *)
Blocked(url) ==
    \/ url.t # "string"
    \/ url.s = <<>>
    \/ BeginsWithOneOf(Trim(url.s), dangerousProtocols)

(* C18: for every array input the result of sanitizePhotoArray has length   *)
(* at most maxCount, contains no empty string, and is, in input order, the  *)
(* sanitizeUrl image of the non-blocked URLs among the input's first        *)
(* maxCount elements; a non-array input yields [].                           *)
C18_SanitizePhotoArray ==
    fn = "sanitizePhotoArray" =>
        LET items == arg.photos.items
            first == {i \in 1..Len(items) : i <= arg.maxCount}
            kept == {i \in first : ~Blocked(items[i])}
            (* the k-th of the kept positions *)
            at(k) == CHOOSE i \in kept : Cardinality({j \in kept : j <= i}) = k
        IN IF ~arg.photos.array THEN res = <<>>
           ELSE /\ Len(res) <= arg.maxCount
                /\ \A k \in 1..Len(res) : res[k] # <<>>
                /\ Len(res) = Cardinality(kept)
                /\ \A k \in 1..Len(res) : res[k] = sanitizeUrl(items[at(k)])

(* three URLs with a blocked one first and a limit of two: one URL is left *)
C18_Witness ==
    /\ fn = "sanitizePhotoArray"
    /\ arg.photos.array
    /\ Len(arg.photos.items) = 3
    /\ arg.maxCount = 2
    /\ Blocked(arg.photos.items[1])
    /\ ~Blocked(arg.photos.items[2])
    /\ ~Blocked(arg.photos.items[3])
    /\ res = <<sanitizeUrl(arg.photos.items[2])>>

----------------------------------------------------------------------------
(* splitList and the lists of the output record                              *)

(* The entries of a multi-value cell by the words of the claim: the pieces  *)
(* between separators (pipes when the value has a pipe, commas otherwise),  *)
(* each without the blanks around it, the blank pieces left out.  A piece   *)
(* is given by its first position; it ends before the next separator.      *)
Entries(value) ==
    LET sep == IF \E i \in 1..Len(value) : value[i] = "|" THEN "|" ELSE ","
        starts == {a \in 1..(Len(value) + 1) : a = 1 \/ value[a - 1] = sep}
        piece(a) ==
            LET b == CHOOSE e \in (a - 1)..Len(value) :
                         /\ \A j \in a..e : value[j] # sep
                         /\ e = Len(value) \/ value[e + 1] = sep
            IN SubSeq(value, a, b)
        kept == {a \in starts : ~Blank(piece(a))}
        at(k) == CHOOSE a \in kept : Cardinality({j \in kept : j <= a}) = k
    IN [k \in 1..Cardinality(kept) |-> Trimmed(piece(at(k)))]

Untrimmed(s) == s # <<>> /\ (s[1] \in WS \/ s[Len(s)] \in WS)

(* C19: splitList splits on pipes when the value contains any pipe and on   *)
(* commas otherwise, trims every entry and drops empty entries: the array   *)
(* never contains an empty or untrimmed string, and an empty value yields   *)
(* no array in the output record.                                            *)
C19_SplitList ==
    (fn = "normaliseRecord" /\ ~res.null) =>
        /\ res.tags = Entries(arg.record.tags)
        /\ res.photos = Entries(arg.record.photos)
        /\ \A k \in 1..Len(res.tags) : res.tags[k] # <<>> /\ ~Untrimmed(res.tags[k])
        /\ "tags" \in res.keys <=> res.tags # <<>>
        /\ "photos" \in res.keys <=> res.photos # <<>>
        /\ Blank(arg.record.tags) => "tags" \notin res.keys
        /\ Blank(arg.record.photos) => "photos" \notin res.keys

(* a cell with a pipe and a comma: the comma belongs to an entry *)
C19_Witness ==
    /\ fn = "normaliseRecord"
    /\ arg.record.tags = <<"t", "|", " ", ",">>
    /\ res.tags = << <<"t">>, <<",">> >>
    /\ arg.record.photos = <<"p", ",", "q">>
    /\ res.photos = << <<"p">>, <<"q">> >>

----------------------------------------------------------------------------
(* double submission                                                         *)

(* the handler is still processing the submit event of this invocation *)
Processing(run) == run.pc \in {"awaitUser", "geocoding", "inserting"}

(* C20, as stated: from the moment the handler starts processing a submit   *)
(* event until that processing ends in success or error no second run of    *)
(* the handler reaches the database insert, also while the first run still  *)
(* awaits the current-user lookup; one submission leads to at most one      *)
(* insert.  So when a later run has sent its insert, every earlier run has  *)
(* ended, and not in success (after a success the form is hidden).          *)
C20_NoDoubleSubmission ==
    \A r, q \in Slots :
        (r < q /\ runs[q].inserted # <<>>) =>
            ~Processing(runs[r]) /\ runs[r].pc # "done"

----------------------------------------------------------------------------
(* the cached user of the remote-auth module                                 *)

(* the lookup started at module load is answered in this step *)
LookupAnswered == auth.ready = "pending" /\ auth'.ready = "ready"

(* C21, as stated: once loginUser or signupUser has resolved with a user,   *)
(* getCurrentUser() returns that user until logoutUser succeeds or an       *)
(* auth-state-change event replaces it: the initial getUser() lookup never  *)
(* overwrites a later sign-in with its older result, whatever the order in  *)
(* which the two promises resolve.                                           *)
C21_LookupKeepsSignIn ==
    [][(/\ ~authCalls.signedIn.null
        /\ getCurrentUser = authCalls.signedIn
        /\ LookupAnswered) => auth'.cachedUser = authCalls.signedIn]_vars

(* C22: on the search page, once the load and every request sent have been   *)
(* answered without an error, the summary and the cards on the page are      *)
(* those of the query and the tags as they are now: the rows the table gives *)
(* for the current query, filtered by the selected tags.                     *)
C22_LatestQueryShown ==
    (/\ ~search.loading
     /\ search.requests = {}
     /\ search.sent > 0
     /\ ~search.failed)
        => search.rendered =
               renderResults(FilterPlaces(RowsOf(SearchPlaces, RequestText(search.currentQuery)),
                                          search.selectedTags))

(* what a failed call leaves: the error thrown, the storage item as it was,  *)
(* no event                                                                  *)
Fails(out, before, after, message) ==
    /\ out.kind = "throw"
    /\ out.val = message
    /\ out.events = <<>>
    /\ after = before

(* what a call that silently does nothing leaves *)
Silent(out, before, after) ==
    /\ out.kind = "undefined"
    /\ out.events = <<>>
    /\ after = before

(* C23: in both implementations a saved-data call that throws writes nothing *)
(* to storage and emits no saved-change event.  A mutating call with no user *)
(* throws 'Login required'; createCollection with a name that is empty after *)
(* trimming throws 'Collection name is required.'; addPlaceToCollection with *)
(* a collection id the user does not have throws 'Collection not found.'     *)
(* (so the flat list is not written either); removePlaceFromCollection with  *)
(* such an id returns undefined, with storage as it was and no event.        *)
C23_FailuresLeaveNothing ==
    [][nOps' # nOps =>
        LET call == last'
            signedIn == call.email # NoEmail
            hasL == HasKey(L_getUserSavedData(lsL, UserL(call.email)).collections, call.cid)
            hasR == HasKey(R_getUserSavedData(lsR, UserR(call.email)).collections, call.cid)
        IN /\ outL'.kind = "throw" => (lsL' = lsL /\ outL'.events = <<>>)
           /\ outR'.kind = "throw" => (lsR' = lsR /\ outR'.events = <<>>)
           /\ (call.op \in Mutators /\ ~signedIn) =>
                  /\ Fails(outL', lsL, lsL', "Login required")
                  /\ Fails(outR', lsR, lsR', "Login required")
           /\ (call.op = "createCollection" /\ signedIn /\ Trim(call.name) = <<>>) =>
                  /\ Fails(outL', lsL, lsL', "Collection name is required.")
                  /\ Fails(outR', lsR, lsR', "Collection name is required.")
           /\ (call.op = "addPlaceToCollection" /\ signedIn) =>
                  /\ ~hasL => Fails(outL', lsL, lsL', "Collection not found.")
                  /\ ~hasR => Fails(outR', lsR, lsR', "Collection not found.")
           /\ (call.op = "removePlaceFromCollection" /\ signedIn) =>
                  /\ ~hasL => Silent(outL', lsL, lsL')
                  /\ ~hasR => Silent(outR', lsR, lsR')
    ]_vars

(* a signed-in user with a saved place has added a place to a collection     *)
(* they do not have, and the call threw                                      *)
C23_Witness ==
    /\ last.op = "addPlaceToCollection"
    /\ last.email # NoEmail
    /\ ~last.hit
    /\ outL.kind = "throw"
    /\ outR.kind = "throw"
    /\ lsL # <<>>
    /\ L_getSavedPlaceIds(lsL, UserL(last.email)).out.val # <<>>
    /\ ~Includes(L_getSavedPlaceIds(lsL, UserL(last.email)).out.val, String(last.pid))

============================================================================
